---- MODULE Spec2Model ----
(***************************************************************************)
(* Model of src/utils/compare_dxf.py: the tolerance-aware structural diff  *)
(* of two DXF drawings (compare_dxf_files_and_generate_dxf and the classes *)
(* it wires together).                                                     *)
(*                                                                         *)
(* Numbers.  A drawing length is an integer number of model units; one     *)
(* unit stands for 0.001 drawing units, so the default base tolerance 0.01 *)
(* is 10 units and an integer-valued attribute such as color 7 is 7000     *)
(* units.  Every base tolerance of the model is a multiple of 10 units so  *)
(* that base_tolerance * 0.1 is again a whole number of units.  Arithmetic *)
(* on lengths is exact, as Decimal arithmetic at 50 digits is for every    *)
(* value of the model below the overflow threshold.                        *)
(*                                                                         *)
(* A Python float that reaches a signature is kept as <<sign, magnitude>>  *)
(* because str() prints the sign of a zero: -0.0 and 0.0 are different     *)
(* texts inside a signature.                                               *)
(***************************************************************************)
EXTENDS Integers, Sequences, FiniteSets, TLC

VARIABLES
    family,         \* index of the input family the two files are drawn from
    file_a,         \* content of the file at path file_a
    file_b,         \* content of the file at path file_b
    tolerance,      \* the base tolerance argument of the call
    pc,             \* position inside compare_dxf_files_and_generate_dxf
    doc_a,          \* ezdxf.readfile(file_a), None before
    doc_b,          \* ezdxf.readfile(file_b), None before
    entities_a,     \* entities_by_hash of document A
    entities_b,     \* entities_by_hash of document B
    deleted_hashes, \* hashes_a - hashes_b
    added_hashes,   \* hashes_b - hashes_a
    common_hashes,  \* hashes_a & hashes_b
    new_doc,        \* the output document being built, None before
    output_file,    \* what is stored at the output path, None while nothing is
    success,        \* the value the call returned, None while it runs
    failure,        \* which document-level failure the environment produced
    prev,           \* the previous call of the session, None in the first call
    calls,          \* the locals of the calls that run side by side, one record
                    \* per call; empty while one call runs at a time
    probe           \* one call of a pure method on its own: the arguments and,
                    \* once it returned or raised, the outcome; None otherwise

vars == <<family, file_a, file_b, tolerance, pc, doc_a, doc_b, entities_a,
          entities_b, deleted_hashes, added_hashes, common_hashes, new_doc,
          output_file, success, failure, prev, calls, probe>>

\* the variables of the session that runs one call at a time
session == <<family, file_a, file_b, tolerance, pc, doc_a, doc_b, entities_a,
             entities_b, deleted_hashes, added_hashes, common_hashes, new_doc,
             output_file, success, failure, prev>>

None == "None"

(***************************************************************************)
(* Bounds of the model.                                                    *)
(***************************************************************************)
\* most entities declared in the drawing spaces of the two files together
MaxEntities == 3
\* |value / tolerance| from which on neither the Decimal path nor the float
\* fallback of normalize_coordinate_precise can round (stands for the float
\* overflow near 1.8e308)
FloatLimit == 1000000
\* |value / tolerance| from which on the quotient has more digits than the
\* Decimal context keeps (getcontext().prec = 50): quantize raises
\* InvalidOperation and the float fallback computes the result
DecimalLimit == 100000

\* for vertex in vertices[:5]: the vertices of a polyline a signature lists
VertexCap == 5

\* the base tolerances a call is made with: 0.01 (the default) and 0.02
Tolerances == {10, 20}

Abs(n) == IF n < 0 THEN -n ELSE n

Range(s) == {s[i] : i \in DOMAIN s}

\* dict.get(key, default)
Get(d, key, default) == IF key \in DOMAIN d THEN d[key] ELSE default

(***************************************************************************)
(* ToleranceConfig                                                         *)
(***************************************************************************)
\* self.angle_tolerance = 0.1, in units of 0.001
AngleTolerance == 100

ToleranceConfig(base_tolerance) ==
    [base_tolerance          |-> base_tolerance,
     coordinate_tolerance    |-> base_tolerance,
     connection_tolerance    |-> base_tolerance \div 10,
     text_position_tolerance |-> base_tolerance * 2,
     angle_tolerance         |-> AngleTolerance,
     length_tolerance        |-> base_tolerance]

\* 'connection' in attribute.lower(), for the attribute names of the model
ContainsConnection(attribute) ==
    attribute \in {"connection", "connection_point", "Connection_Point",
                   "connection_angle"}

\* any(angle_attr in attribute for angle_attr in ['angle', 'rotation'])
ContainsAngle(attribute) ==
    attribute \in {"start_angle", "end_angle", "angle", "rotation", "connection_angle"}

\* a lookup that tests the attribute name before the entity type
get_tolerance_by_attribute_first(cfg, entity_type, attribute) ==
    IF attribute # None /\ ContainsConnection(attribute)
    THEN cfg.connection_tolerance
    ELSE IF attribute # None /\ ContainsAngle(attribute)
    THEN cfg.angle_tolerance
    ELSE IF entity_type \in {"TEXT", "MTEXT", "ATTRIB"}
    THEN cfg.text_position_tolerance
    ELSE IF entity_type = "POINT"
    THEN cfg.connection_tolerance
    ELSE cfg.coordinate_tolerance

get_tolerance_for_entity(cfg, entity_type, attribute) ==
    IF entity_type \in {"TEXT", "MTEXT", "ATTRIB"}
    THEN cfg.text_position_tolerance
    ELSE IF entity_type = "POINT" \/ (attribute # None /\ ContainsConnection(attribute))
    THEN cfg.connection_tolerance
    ELSE IF attribute # None /\ ContainsAngle(attribute)
    THEN cfg.angle_tolerance
    ELSE cfg.coordinate_tolerance

(***************************************************************************)
(* CoordinateTransformer.normalize_coordinate_precise                      *)
(***************************************************************************)
\* a Python float as its text shows it: sign and magnitude
PyFloat(n) == <<IF n < 0 THEN "-" ELSE "+", Abs(n)>>

\* Decimal.quantize(Decimal('1')) under the default context (ROUND_HALF_EVEN)
\* and the builtin round(): n/d to the nearest integer, a tie to the even one.
\* The magnitude is rounded and the sign kept, so -0.4 rounds to -0.
RoundHalfEven(n, d) ==
    LET a == Abs(n)
        q == a \div d
        r == a % d
    IN  IF 2 * r < d THEN q
        ELSE IF 2 * r > d THEN q + 1
        ELSE IF q % 2 = 0 THEN q ELSE q + 1

\* The quotient no longer fits: quantize raises InvalidOperation, and in the
\* handler round(value / tolerance) raises OverflowError, which leaves
\* normalize_coordinate_precise.
NormalizeRaises(value, tol) ==
    tol > 0 /\ Abs(value) \div tol >= FloatLimit

\* (decimal_value / decimal_tolerance).quantize(Decimal('1')) raises
QuantizeRaises(value, tol) ==
    tol > 0 /\ Abs(value) \div tol >= DecimalLimit

\* float(normalized) of the try block: the Decimal keeps the sign of a zero
DecimalQuantize(value, tol) ==
    <<IF value < 0 THEN "-" ELSE "+", RoundHalfEven(value, tol) * tol>>

\* round() of Python 2: a tie goes away from zero
PyRoundHalfAway(n, d) ==
    IF 2 * (Abs(n) % d) >= d THEN Abs(n) \div d + 1 ELSE Abs(n) \div d

\* the builtin round() of Python 3 on n/d: to the nearest integer, a tie to
\* the even one; the magnitude of the int it returns
PyRound(n, d) ==
    LET q == Abs(n) \div d
        r == Abs(n) % d
    IN  IF 2 * r < d \/ (2 * r = d /\ q % 2 = 0) THEN q ELSE q + 1

\* round(value / tolerance) * tolerance of the except block: an int has no
\* negative zero
FloatFallback(value, tol) ==
    LET k == PyRound(value, tol)
    IN  <<IF value < 0 /\ k # 0 THEN "-" ELSE "+", k * tol>>

\* the float returned when nothing is raised
normalize_coordinate_precise(value, tol) ==
    IF tol <= 0 THEN PyFloat(value)
    ELSE IF QuantizeRaises(value, tol) THEN FloatFallback(value, tol)
    ELSE DecimalQuantize(value, tol)

(***************************************************************************)
(* The documents of the model.  An entity is what ezdxf hands out: its     *)
(* dxftype(), its dxf namespace (all_existing_dxf_attribs()) and, for an   *)
(* INSERT, the ATTRIBs attached to it.  A point is <<x, y, z>>.            *)
(***************************************************************************)
Line(layer, color, start, end, handle) ==
    [dxftype |-> "LINE",
     dxf     |-> [layer |-> layer, color |-> color, start |-> start, end |-> end,
                  handle |-> handle],
     attribs |-> <<>>]

Text(layer, color, insert, height, text, handle) ==
    [dxftype |-> "TEXT",
     dxf     |-> [layer |-> layer, color |-> color, insert |-> insert,
                  height |-> height, text |-> text, handle |-> handle],
     attribs |-> <<>>]

Insert(name, insert, handle) ==
    [dxftype |-> "INSERT",
     dxf     |-> [name |-> name, insert |-> insert, layer |-> "0", handle |-> handle],
     attribs |-> <<>>]

Circle(layer, color, center, radius, handle) ==
    [dxftype |-> "CIRCLE",
     dxf     |-> [layer |-> layer, color |-> color, center |-> center,
                  radius |-> radius, handle |-> handle],
     attribs |-> <<>>]

\* an LWPOLYLINE on layer L1, color 7; points is what get_points() yields
LwPolyline(points) ==
    [dxftype |-> "LWPOLYLINE",
     dxf     |-> [layer |-> "L1", color |-> 7, handle |-> "6A"],
     points  |-> points,
     attribs |-> <<>>]

\* the zigzag (10,0) (20,10) (30,0) ... of n vertices, its third vertex
\* moved by jitter along x and its vertices from the sixth on lifted by lift
Zigzag(n, jitter, lift) ==
    LwPolyline([i \in 1..n |->
                   <<i * 10000 + (IF i = 3 THEN jitter ELSE 0),
                     ((i + 1) % 2) * 10000 + (IF i > VertexCap THEN lift ELSE 0)>>])

\* a coordinate no tolerance of the model can quantize (NormalizeRaises)
HugeCoord == FloatLimit * 100

\* LINE (0,0) -> (10, y/1000) on layer L1, color 7
LineTo(y) == Line("L1", 7, <<0, 0, 0>>, <<10000, y, 0>>, "1A")

\* a LINE whose start lies beyond what normalize_coordinate_precise can round
HugeLine == Line("L1", 7, <<HugeCoord, 0, 0>>, <<10000, 10000, 0>>, "1B")

\* block B1 of scenario 4: LINE (0,0) -> (1,1), and a TEXT at the block origin
BlockLine == Line("0", 7, <<0, 0, 0>>, <<1000, 1000, 0>>, "2A")
BlockText == Text("0", 7, <<0, 0, 0>>, 2500, "R1", "2B")

InsertAt(name, x) == Insert(name, <<x, 100000, 0>>, "3A")

\* an INSERT that carries no insertion point
InsertNowhere(name) ==
    [dxftype |-> "INSERT",
     dxf     |-> [name |-> name, layer |-> "0", handle |-> "3B"],
     attribs |-> <<>>]

\* the entity as another save of the drawing holds it: under another handle,
\* owned by another table record
Rehandled(entity) ==
    [entity EXCEPT !.dxf = [k \in DOMAIN entity.dxf \cup {"owner"} |->
                               IF k = "handle" THEN "9F"
                               ELSE IF k = "owner" THEN "1F"
                               ELSE entity.dxf[k]]]

\* an entity for which the named access raises (Fault)
Faulty(entity, fault) == entity @@ [fault |-> fault]

\* an attribute of a block reference: tag and value, at (100,100)
Attrib(tag, text) ==
    [dxftype |-> "ATTRIB",
     dxf     |-> [layer |-> "L1", color |-> 7, insert |-> <<100000, 100000, 0>>,
                  height |-> 2500, tag |-> tag, text |-> text, handle |-> "4A"],
     attribs |-> <<>>]

\* the attribute definition block B3 holds
AttDef(tag) ==
    [dxftype |-> "ATTDEF",
     dxf     |-> [layer |-> "0", insert |-> <<0, 0, 0>>, height |-> 2500,
                  tag |-> tag, handle |-> "4B"],
     attribs |-> <<>>]

\* a placement at (100,100) that carries the attributes
InsertWith(name, attribs) ==
    [Insert(name, <<100000, 100000, 0>>, "3C") EXCEPT !.attribs = attribs]

\* entities of kinds create_entity_from_absolute has no branch for: an
\* ELLIPSE has a center, a SHAPE an insert, a RAY a start
Ellipse ==
    [dxftype |-> "ELLIPSE",
     dxf     |-> [layer |-> "L1", color |-> 7, center |-> <<5000, 5000, 0>>,
                  major_axis |-> <<1000, 0, 0>>, handle |-> "5A"],
     attribs |-> <<>>]
Shape ==
    [dxftype |-> "SHAPE",
     dxf     |-> [layer |-> "L1", color |-> 7, insert |-> <<7000, 5000, 0>>,
                  handle |-> "5B"],
     attribs |-> <<>>]
Ray ==
    [dxftype |-> "RAY",
     dxf     |-> [layer |-> "L1", color |-> 7, start |-> <<9000, 5000, 0>>,
                  unit_vector |-> <<1, 0, 0>>, handle |-> "5C"],
     attribs |-> <<>>]

\* a placement at (100,100) with xscale = yscale = scale
InsertScaled(name, scale) ==
    [dxftype |-> "INSERT",
     dxf     |-> [name |-> name, insert |-> <<100000, 100000, 0>>, layer |-> "0",
                  xscale |-> scale, yscale |-> scale, handle |-> "3D"],
     attribs |-> <<>>]

\* block BC: a CIRCLE about the block origin
BlockCircle(radius) == Circle("0", 7, <<0, 0, 0>>, radius, "2C")

\* a placement that carries the attributes, at (x,100), turned by rotation
\* degrees and scaled by scale along x and y
PlacedWith(name, attribs, x, rotation, scale) ==
    [dxftype |-> "INSERT",
     dxf     |-> [name |-> name, insert |-> <<x, 100000, 0>>, layer |-> "0",
                  rotation |-> rotation, xscale |-> scale, yscale |-> scale,
                  handle |-> "3E"],
     attribs |-> attribs]

\* block B1 placed at (100,100) and exploded: its LINE and its TEXT where
\* the placement puts them, in the drawing space itself
ExplodedLine == Line("0", 7, <<100000, 100000, 0>>, <<101000, 101000, 0>>, "8A")
ExplodedText == Text("0", 7, <<100000, 100000, 0>>, 2500, "R1", "8B")

\* a vector attribute whose value is no vector
Malformed3d == <<"malformed">>

\* the entity with an extrusion no new entity can take
Unrenderable(entity) ==
    [entity EXCEPT !.dxf = entity.dxf @@ [extrusion |-> Malformed3d]]

\* the INSERT block BOuter holds: block BInner at (5,0) of the block
NestedInsert == Insert("BInner", <<5000, 0, 0>>, "7A")

\* The input families: each gives the entities a drawing space is made of and
\* the block table both documents carry.
\*   1  LINEs whose end differs by less and by more than a tolerance
\*   2  a LINE, the same LINE under another handle and a LINE whose
\*      signature construction fails
\*   3  placements of block B1 at (100,100), (100.012,100) and (100.027,100)
\*   4  placements of a block that holds an entity whose signature fails,
\*      and a placement without insertion point
\*   5  a LINE, a LINE whose transform raises and a LINE whose attributes
\*      cannot be read
\*   6  placements that carry one attribute: tag PART or REV, with a value
\*      and without
\*   7  an ELLIPSE, a SHAPE and a RAY
\*   8  placements of block BC at scale 1 and at scale 2; the CIRCLE of BC
\*      has radius 5.006 in file A and 5.013 in file B (blocks_b)
\*   9  polylines: a zigzag of six vertices, one of seven vertices whose
\*      third vertex is 0.004 off and whose sixth and seventh lie elsewhere,
\*      and one of five vertices whose third vertex is 1.0 off
\*  10  placements of block BOuter, which holds an INSERT of block BInner,
\*      and a placement of BInner itself
\*  11  placements that carry the attribute PART = R1: as it is, turned by
\*      90 degrees and scaled by 2 in the same spot, and the latter moved
\*  12  two LINEs and a LINE the output cannot take
\*  13  block B1 placed at (100,100), and the LINE and the TEXT of B1 drawn
\*      in the same place without the block
\*  14  a placement of a block the documents do not hold, carrying an
\*      attribute, the same placement of block B3, and a LINE
Families ==
    << [pool   |-> {LineTo(10026), LineTo(10030), LineTo(11000)},
        blocks |-> <<>>],
       [pool   |-> {LineTo(10030), HugeLine, Rehandled(LineTo(10030))},
        blocks |-> <<>>],
       [pool   |-> {InsertAt("B1", 100000), InsertAt("B1", 100012),
                    InsertAt("B1", 100027)},
        blocks |-> [B1 |-> <<BlockLine, BlockText>>]],
       [pool   |-> {InsertAt("B2", 100000), LineTo(10030), InsertNowhere("B2")},
        blocks |-> [B2 |-> <<HugeLine>>]],
       [pool   |-> {LineTo(10030), Faulty(LineTo(11000), "transform"),
                    Faulty(LineTo(11000), "attributes")},
        blocks |-> <<>>],
       [pool   |-> {InsertWith("B3", <<Attrib("PART", "R1")>>),
                    InsertWith("B3", <<Attrib("REV", "R1")>>),
                    InsertWith("B3", <<Attrib("PART", "")>>)},
        blocks |-> [B3 |-> <<AttDef("PART")>>]],
       [pool   |-> {Ellipse, Shape, Ray},
        blocks |-> <<>>],
       [pool     |-> {InsertScaled("BC", 1), InsertScaled("BC", 2)},
        blocks   |-> [BC |-> <<BlockCircle(5006)>>],
        blocks_b |-> [BC |-> <<BlockCircle(5013)>>]],
       [pool   |-> {Zigzag(VertexCap + 1, 0, 0), Zigzag(VertexCap + 2, 4, 5000),
                    Zigzag(VertexCap, 1000, 0)},
        blocks |-> <<>>],
       [pool   |-> {InsertAt("BOuter", 100000), InsertAt("BOuter", 100027),
                    InsertAt("BInner", 100000)},
        blocks |-> [BOuter |-> <<NestedInsert>>, BInner |-> <<BlockText>>]],
       [pool   |-> {PlacedWith("B3", <<Attrib("PART", "R1")>>, 100000, 0, 1),
                    PlacedWith("B3", <<Attrib("PART", "R1")>>, 100000, 90, 2),
                    PlacedWith("B3", <<Attrib("PART", "R1")>>, 150000, 90, 2)},
        blocks |-> [B3 |-> <<AttDef("PART")>>]],
       [pool   |-> {LineTo(10030), LineTo(11000), Unrenderable(LineTo(12000))},
        blocks |-> <<>>],
       [pool   |-> {InsertAt("B1", 100000), ExplodedLine, ExplodedText},
        blocks |-> [B1 |-> <<BlockLine, BlockText>>]],
       [pool   |-> {InsertWith("Missing", <<Attrib("PART", "R1")>>),
                    InsertWith("B3", <<Attrib("PART", "R1")>>), LineTo(10030)},
        blocks |-> [B3 |-> <<AttDef("PART")>>]] >>

\* the drawing spaces of at most n entities over a pool
SeqsUpTo(S, n) == UNION {[1..k -> S] : k \in 0..n}

Document(msp, blocks) == [msp |-> msp, blocks |-> blocks]

(***************************************************************************)
(* CoordinateTransformer: the 4x4 matrices.  A matrix of the model keeps   *)
(* the entries an INSERT can set: the linear part of the xy plane, the z   *)
(* scale and the translation.  Rotations are multiples of 90 degrees, for  *)
(* which cos and sin are taken as exact.                                   *)
(***************************************************************************)
Cos(deg) == CASE deg % 360 = 0 -> 1 [] deg % 360 = 90 -> 0
              [] deg % 360 = 180 -> -1 [] OTHER -> 0
Sin(deg) == CASE deg % 360 = 0 -> 0 [] deg % 360 = 90 -> 1
              [] deg % 360 = 180 -> 0 [] OTHER -> -1

\* np.eye(4)
IdentityMatrix == [m00 |-> 1, m01 |-> 0, m10 |-> 0, m11 |-> 1, m22 |-> 1,
                   tx |-> 0, ty |-> 0, tz |-> 0]

\* translation_matrix @ rotation_matrix @ scale_matrix
create_transformation_matrix(insert_entity) ==
    LET d        == insert_entity.dxf
        p        == Get(d, "insert", <<0, 0, 0>>)
        rotation == Get(d, "rotation", 0)
        xscale   == Get(d, "xscale", 1)
        yscale   == Get(d, "yscale", 1)
        zscale   == Get(d, "zscale", 1)
    IN  [m00 |-> Cos(rotation) * xscale, m01 |-> (0 - Sin(rotation)) * yscale,
         m10 |-> Sin(rotation) * xscale, m11 |-> Cos(rotation) * yscale,
         m22 |-> zscale,
         tx |-> p[1], ty |-> p[2], tz |-> p[3]]

transform_point(point, m) ==
    << m.m00 * point[1] + m.m01 * point[2] + m.tx,
       m.m10 * point[1] + m.m11 * point[2] + m.ty,
       m.m22 * point[3] + m.tz >>

\* sqrt(m00^2 + m10^2) and so on: one entry of each column is zero
extract_scale_factors(m) ==
    << Abs(m.m00) + Abs(m.m10), Abs(m.m01) + Abs(m.m11), Abs(m.m22) >>

(***************************************************************************)
(* EntityExpander                                                          *)
(***************************************************************************)
excluded_attributes ==
    {"handle", "owner", "reactors", "dictionary", "extension_dict", "objectid",
     "uuid", "app_data", "doc", "entitydb", "is_alive", "is_virtual", "is_copy",
     "soft_pointer_ids", "hard_pointer_ids"}

Restrict(f, S) == [k \in S |-> f[k]]

\* Which access to the ezdxf entity raises, for an entity the library cannot
\* serve: "attributes" is all_existing_dxf_attribs() raising, "transform" an
\* exception in the body of transform_entity_to_absolute (a size attribute
\* that is no number, a vertex without length).
Fault(entity) == Get(entity, "fault", "none")

\* entity.get_points() of an LWPOLYLINE, each point cut to (x, y)
_extract_lwpolyline_vertices(entity) == Get(entity, "points", <<>>)

\* the except branch returns {}
safe_get_dxf_attributes(entity) ==
    IF Fault(entity) = "attributes" THEN <<>>
    ELSE Restrict(entity.dxf, DOMAIN entity.dxf \ excluded_attributes)
         @@ (IF entity.dxftype = "LWPOLYLINE"
                /\ _extract_lwpolyline_vertices(entity) # <<>>
             THEN [vertices |-> _extract_lwpolyline_vertices(entity)]
             ELSE <<>>)

coordinate_attrs == {"insert", "center", "start", "end", "location", "base_point"}

\* a vertex (x, y) is transformed as (x, y, 0.0) and cut to two coordinates
_transform_coordinate_attributes(clean_attrs, m) ==
    [k \in DOMAIN clean_attrs |->
        IF k \in coordinate_attrs THEN transform_point(clean_attrs[k], m)
        ELSE IF k = "vertices"
        THEN [i \in DOMAIN clean_attrs[k] |->
                 SubSeq(transform_point(<<clean_attrs[k][i][1], clean_attrs[k][i][2], 0>>,
                                        m), 1, 2)]
        ELSE clean_attrs[k]]

\* radius * (scale_x + scale_y) / 2.0 and height * scale_y
_transform_size_attributes(entity_type, attrs, scale) ==
    [k \in DOMAIN attrs |->
        IF k = "radius" /\ entity_type \in {"CIRCLE", "ARC"}
        THEN (attrs[k] * (scale[1] + scale[2])) \div 2
        ELSE IF k = "height" /\ entity_type \in {"TEXT", "MTEXT", "ATTRIB"}
        THEN attrs[k] * scale[2]
        ELSE attrs[k]]

\* original_entity_id (id(entity)) is stored by the code and read nowhere; the
\* record of the model leaves it out.  A scale_factors of None is <<>>.
transform_entity_to_absolute(entity, m) ==
    LET entity_type == entity.dxftype
        clean_attrs == safe_get_dxf_attributes(entity)
        scale       == extract_scale_factors(m)
        is_scaled   == scale # <<1, 1, 1>>
        moved       == _transform_coordinate_attributes(clean_attrs, m)
        sized       == IF is_scaled
                       THEN _transform_size_attributes(entity_type, moved, scale)
                       ELSE moved
    IN  [dxftype        |-> entity_type,
         attributes     |-> sized,
         text_content   |-> Get(entity.dxf, "text", None),
         is_transformed |-> TRUE,
         scale_factors  |-> IF is_scaled THEN scale ELSE <<>>]

\* the try block of transform_entity_to_absolute raises: it returns None
TransformRaises(entity) == Fault(entity) = "transform"

\* a caller that receives an absolute entity whatever the transform did
AbsoluteAlways(entity, m, extra) ==
    << transform_entity_to_absolute(entity, m) @@ extra >>

\* what the caller appends for one entity: nothing when the result is None
AbsoluteOrNothing(entity, m, extra) ==
    IF TransformRaises(entity) THEN <<>>
    ELSE << transform_entity_to_absolute(entity, m) @@ extra >>

\* tuple(entity.dxf.insert) raises for an INSERT without insertion point, as
\* soon as one absolute entity of the INSERT is to be completed
InsertPointRaises(doc, entity) ==
    /\ "insert" \notin DOMAIN entity.dxf
    /\ \/ \E k \in DOMAIN doc.blocks[entity.dxf.name] :
             /\ doc.blocks[entity.dxf.name][k].dxftype # "ATTDEF"
             /\ ~ TransformRaises(doc.blocks[entity.dxf.name][k])
       \/ \E k \in DOMAIN entity.attribs : ~ TransformRaises(entity.attribs[k])

RECURSIVE Concat(_)
\* the lists of a list, appended one after the other
Concat(lists) == IF lists = <<>> THEN <<>> ELSE Head(lists) \o Concat(Tail(lists))

\* an expander that places the attached ATTRIBs by the matrix of the INSERT
AttribMatrixOfInsert(insert_entity) == create_transformation_matrix(insert_entity)

\* identity_matrix = np.eye(4), the matrix every attached ATTRIB is given
AttribMatrix(insert_entity) == IdentityMatrix

\* an expander that flattens an INSERT met inside a block: the entities of
\* the block it references take its place
BlockEntityFlattened(doc, block_entity, m, extra) ==
    IF block_entity.dxftype = "INSERT" /\ block_entity.dxf.name \in DOMAIN doc.blocks
    THEN Concat([k \in DOMAIN doc.blocks[block_entity.dxf.name] |->
                    AbsoluteOrNothing(doc.blocks[block_entity.dxf.name][k], m, extra)])
    ELSE AbsoluteOrNothing(block_entity, m, extra)

\* what one entity of a block appends: itself placed by the matrix of the
\* INSERT of the drawing space, an INSERT like any other entity
BlockEntityPlaced(doc, block_entity, m, extra) ==
    AbsoluteOrNothing(block_entity, m, extra)

\* an expander that converts the attached ATTRIBs of an INSERT whose block
\* the document does not hold
AttribsWithoutBlock(doc, entity) ==
    Concat([k \in DOMAIN entity.attribs |->
               AbsoluteOrNothing(entity.attribs[k], AttribMatrix(entity),
                  [insert_info |->
                      [block_name       |-> entity.dxf.name,
                       insert_point     |-> entity.dxf.insert,
                       is_insert_attrib |-> TRUE]])])

\* if block_name in doc.blocks: has no else; an INSERT whose block the
\* document does not hold appends nothing
NothingWithoutBlock(doc, entity) == <<>>

\* what one entity of the drawing space appends to expanded_entities
ExpandEntity(doc, entity) ==
    IF entity.dxftype = "INSERT" THEN
        LET m          == create_transformation_matrix(entity)
            block_name == entity.dxf.name
            FromBlock(block_entity) ==
                IF block_entity.dxftype = "ATTDEF" THEN <<>>
                ELSE BlockEntityPlaced(doc, block_entity, m,
                        [insert_info |->
                            [block_name   |-> block_name,
                             insert_point |-> entity.dxf.insert,
                             rotation     |-> Get(entity.dxf, "rotation", 0),
                             scale        |-> << Get(entity.dxf, "xscale", 1),
                                                 Get(entity.dxf, "yscale", 1),
                                                 Get(entity.dxf, "zscale", 1) >>]])
            FromAttrib(attrib) ==
                AbsoluteOrNothing(attrib, AttribMatrix(entity),
                   [insert_info |->
                       [block_name       |-> block_name,
                        insert_point     |-> entity.dxf.insert,
                        is_insert_attrib |-> TRUE]])
        IN  IF block_name \notin DOMAIN doc.blocks THEN NothingWithoutBlock(doc, entity)
            \* the handler of the INSERT: nothing had been appended for it
            ELSE IF InsertPointRaises(doc, entity) THEN <<>>
            ELSE Concat([k \in DOMAIN doc.blocks[block_name] |->
                            FromBlock(doc.blocks[block_name][k])])
                 \o Concat([k \in DOMAIN entity.attribs |-> FromAttrib(entity.attribs[k])])
    ELSE IF entity.dxftype # "ATTDEF" THEN
        AbsoluteOrNothing(entity, IdentityMatrix, [is_direct_modelspace |-> TRUE])
    ELSE <<>>

expand_insert_entities(doc) ==
    LET One(entity) == ExpandEntity(doc, entity)
    IN  Concat([k \in DOMAIN doc.msp |-> One(doc.msp[k])])

(***************************************************************************)
(* CoordinateTransformer.normalize_coordinate_with_context                 *)
(***************************************************************************)
NormalizePoint(coord, tol) ==
    [i \in DOMAIN coord |-> normalize_coordinate_precise(coord[i], tol)]

normalize_coordinate_with_context(cfg, coord, entity_type, attribute) ==
    NormalizePoint(coord, get_tolerance_for_entity(cfg, entity_type, attribute))

PointRaises(coord, tol) == \E i \in DOMAIN coord : NormalizeRaises(coord[i], tol)

(***************************************************************************)
(* SignatureGenerator.  A signature is the sequence of the parts that      *)
(* "_".join() concatenates; a part is <<prefix, value, ...>> for the text  *)
(* prefix_value.  The first part is the entity type.                       *)
(***************************************************************************)
\* for pos_attr in ['insert', 'center', 'start', 'location']: the first present
PositionAttr(attrs) ==
    IF "insert" \in DOMAIN attrs THEN "insert"
    ELSE IF "center" \in DOMAIN attrs THEN "center"
    ELSE IF "start" \in DOMAIN attrs THEN "start"
    ELSE IF "location" \in DOMAIN attrs THEN "location"
    ELSE None

\* a signature that never carries the insertion point
NoInsertPoint(absolute_entity) == <<>>

\* the insertion point that enters the signature, <<>> when none does
SignatureInsertPoint(absolute_entity) ==
    IF "insert_info" \in DOMAIN absolute_entity
       /\ ~ Get(absolute_entity, "is_direct_modelspace", FALSE)
    THEN Get(absolute_entity.insert_info, "insert_point", <<>>)
    ELSE <<>>

\* text_content.strip().replace('\n', '').replace('\r', ''), for the texts of
\* the model: "R1 " and "R1\n" stand for texts with trailing white space
CleanText(text) == IF text \in {"R1 ", "R1\n"} THEN "R1" ELSE text

\* text_content and text_content.strip()
HasText(text) == text # None /\ text # "" /\ CleanText(text) # ""

important_attrs == <<"layer", "color", "height", "radius", "start_angle", "end_angle">>

\* isinstance(value, (int, float)): every attribute of the list but the layer name
IsNumber(attr_name) == attr_name # "layer"

\* the value of a numeric attribute in model units: a color index c is c.0
InUnits(attr_name, value) == IF attr_name = "color" THEN value * 1000 ELSE value

ImportantTolerance(cfg, entity_type, attr_name, absolute_entity) ==
    IF attr_name \in {"height", "radius"} /\ absolute_entity.scale_factors # <<>>
    THEN get_tolerance_for_entity(cfg, entity_type, attr_name) * 2
    ELSE get_tolerance_for_entity(cfg, entity_type, attr_name)

\* The entities of the model carry no rotation attribute, so the rotation
\* part of the code never applies.
_add_important_attributes(cfg, attrs, entity_type, absolute_entity) ==
    LET Part(attr_name) ==
            IF attr_name \notin DOMAIN attrs THEN <<>>
            ELSE IF IsNumber(attr_name)
            THEN << <<attr_name,
                      normalize_coordinate_precise(
                          InUnits(attr_name, attrs[attr_name]),
                          ImportantTolerance(cfg, entity_type, attr_name,
                                             absolute_entity))>> >>
            ELSE << <<attr_name, attrs[attr_name]>> >>
    IN  Concat([k \in DOMAIN important_attrs |-> Part(important_attrs[k])])

ImportantRaises(cfg, attrs, entity_type, absolute_entity) ==
    \E i \in DOMAIN important_attrs :
        LET attr_name == important_attrs[i]
        IN  /\ attr_name \in DOMAIN attrs
            /\ IsNumber(attr_name)
            /\ NormalizeRaises(InUnits(attr_name, attrs[attr_name]),
                               ImportantTolerance(cfg, entity_type, attr_name,
                                                  absolute_entity))

\* a signature whose LINE part repeats the start point in place of the end
GeometryDetailsWithoutEnd(cfg, entity_type, attrs) ==
    IF entity_type = "LINE" /\ "start" \in DOMAIN attrs /\ "end" \in DOMAIN attrs
    THEN << <<"line",
              normalize_coordinate_with_context(cfg, attrs.start, entity_type, None),
              normalize_coordinate_with_context(cfg, attrs.start, entity_type, None)>> >>
    ELSE <<>>

\* a signature that lists every vertex of the polyline
AllVertices(vertices) == vertices

\* vertices[:5]
LeadingVertices(vertices) ==
    SubSeq(vertices, 1, IF Len(vertices) < VertexCap THEN Len(vertices) ELSE VertexCap)

_add_geometry_details(cfg, entity_type, attrs) ==
    IF entity_type = "LINE" /\ "start" \in DOMAIN attrs /\ "end" \in DOMAIN attrs
    THEN << <<"line",
              normalize_coordinate_with_context(cfg, attrs.start, entity_type, None),
              normalize_coordinate_with_context(cfg, attrs.end, entity_type, None)>> >>
    ELSE IF entity_type = "CIRCLE" /\ "center" \in DOMAIN attrs
            /\ "radius" \in DOMAIN attrs
    THEN << <<"circle",
              normalize_coordinate_with_context(cfg, attrs.center, entity_type, None),
              normalize_coordinate_precise(attrs.radius, cfg.length_tolerance)>> >>
    ELSE IF entity_type = "LWPOLYLINE" /\ "vertices" \in DOMAIN attrs
            /\ attrs.vertices # <<>>
    THEN << <<"lwpoly_vertices",
              [i \in DOMAIN LeadingVertices(attrs.vertices) |->
                  normalize_coordinate_with_context(
                      cfg, LeadingVertices(attrs.vertices)[i], entity_type, None)]>> >>
    ELSE <<>>

GeometryRaises(cfg, entity_type, attrs) ==
    LET tol == get_tolerance_for_entity(cfg, entity_type, None)
    IN  IF entity_type = "LINE" /\ "start" \in DOMAIN attrs /\ "end" \in DOMAIN attrs
        THEN PointRaises(attrs.start, tol) \/ PointRaises(attrs.end, tol)
        ELSE IF entity_type = "CIRCLE" /\ "center" \in DOMAIN attrs
                /\ "radius" \in DOMAIN attrs
        THEN PointRaises(attrs.center, tol)
             \/ NormalizeRaises(attrs.radius, cfg.length_tolerance)
        ELSE IF entity_type = "LWPOLYLINE" /\ "vertices" \in DOMAIN attrs
        THEN \E i \in DOMAIN LeadingVertices(attrs.vertices) :
                 PointRaises(LeadingVertices(attrs.vertices)[i], tol)
        ELSE FALSE

\* an exception reaches the except clause of create_absolute_entity_signature
SignatureRaises(cfg, absolute_entity) ==
    LET entity_type == absolute_entity.dxftype
        attrs       == absolute_entity.attributes
        tol         == get_tolerance_for_entity(cfg, entity_type, None)
        pos_attr    == PositionAttr(attrs)
        insert_pt   == SignatureInsertPoint(absolute_entity)
    IN  \/ pos_attr # None /\ PointRaises(attrs[pos_attr], tol)
        \/ insert_pt # <<>> /\ PointRaises(insert_pt, tol)
        \/ ImportantRaises(cfg, attrs, entity_type, absolute_entity)
        \/ GeometryRaises(cfg, entity_type, attrs)

\* return f"{entity_type}_error_{id(absolute_entity)}"
ErrorSignature(entity_type, object_id) == <<entity_type, <<"error", object_id>>>>

IsErrorSignature(signature) == Len(signature) = 2 /\ signature[2][1] = "error"

\* object_id is id(absolute_entity), the address of the record being signed
create_absolute_entity_signature(cfg, absolute_entity, object_id) ==
    LET entity_type == absolute_entity.dxftype
        attrs       == absolute_entity.attributes
        pos_attr    == PositionAttr(attrs)
        insert_pt   == SignatureInsertPoint(absolute_entity)
        text        == absolute_entity.text_content
    IN  IF SignatureRaises(cfg, absolute_entity)
        THEN ErrorSignature(entity_type, object_id)
        ELSE <<entity_type>>
             \o (IF pos_attr # None
                 THEN << <<"pos", normalize_coordinate_with_context(
                                      cfg, attrs[pos_attr], entity_type, None)>> >>
                 ELSE <<>>)
             \o (IF insert_pt # <<>>
                 THEN << <<"from_insert", normalize_coordinate_with_context(
                                              cfg, insert_pt, entity_type, None)>> >>
                 ELSE <<>>)
             \o (IF HasText(text) THEN << <<"text", CleanText(text)>> >> ELSE <<>>)
             \o (IF entity_type = "ATTRIB"
                 THEN << <<"tag", Get(absolute_entity, "attrib_tag", "")>> >>
                 ELSE <<>>)
             \o _add_important_attributes(cfg, attrs, entity_type, absolute_entity)
             \o _add_geometry_details(cfg, entity_type, attrs)

(***************************************************************************)
(* DiffAnalyzer                                                            *)
(***************************************************************************)
\* hashlib.sha256(signature.encode('utf-8')).hexdigest(): distinct signatures
\* have distinct digests.  A signature is never empty (it starts with the
\* entity type), so the json.dumps branch is not taken.
generate_enhanced_hash(entity_data) == <<"sha256", entity_data.absolute_signature>>

\* the normalizations of _extract_geometry_details raise inside its own try
\* block, which drops the geometry field and keeps the record
_extract_geometry_details(cfg, absolute_entity) ==
    LET entity_type == absolute_entity.dxftype
        attrs       == absolute_entity.attributes
        tol         == get_tolerance_for_entity(cfg, entity_type, None)
    IN  IF entity_type = "LINE" /\ "start" \in DOMAIN attrs /\ "end" \in DOMAIN attrs
           /\ ~ PointRaises(attrs.start, tol) /\ ~ PointRaises(attrs.end, tol)
        THEN [line_geometry |-> [start |-> NormalizePoint(attrs.start, tol),
                                 end   |-> NormalizePoint(attrs.end, tol)]]
        ELSE IF entity_type = "CIRCLE" /\ "center" \in DOMAIN attrs
                /\ "radius" \in DOMAIN attrs /\ ~ PointRaises(attrs.center, tol)
        THEN [circle_geometry |-> [center |-> NormalizePoint(attrs.center, tol),
                                   radius |-> attrs.radius]]
        ELSE <<>>

create_entity_data_from_absolute(cfg, absolute_entity, object_id) ==
    [dxftype            |-> absolute_entity.dxftype,
     absolute_signature |-> create_absolute_entity_signature(cfg, absolute_entity,
                                                             object_id),
     attributes         |-> absolute_entity.attributes,
     text_content       |-> absolute_entity.text_content,
     is_transformed     |-> absolute_entity.is_transformed]
    @@ (IF absolute_entity.dxftype = "ATTRIB" /\ "attrib_tag" \in DOMAIN absolute_entity
        THEN [attrib_tag |-> absolute_entity.attrib_tag] ELSE <<>>)
    @@ (IF "insert_info" \in DOMAIN absolute_entity
        THEN [insert_info |-> absolute_entity.insert_info] ELSE <<>>)
    @@ _extract_geometry_details(cfg, absolute_entity)

LocationOf(absolute_entity) ==
    IF Get(absolute_entity, "is_direct_modelspace", FALSE) THEN <<"modelspace">>
    ELSE <<"expanded_from",
           Get(Get(absolute_entity, "insert_info", <<>>), "block_name", "unknown")>>

\* one pass of the loop body of extract_entities_from_doc: the hash and the
\* (location, virtual_entity) pair appended under it
Occurrence(cfg, absolute_entity, object_id) ==
    LET entity_data == create_entity_data_from_absolute(cfg, absolute_entity, object_id)
    IN  [hash  |-> generate_enhanced_hash(entity_data),
         entry |-> <<LocationOf(absolute_entity),
                     [data |-> entity_data, absolute_entity |-> absolute_entity]>>]

RECURSIVE Subsequence(_, _)
\* the entries of occs recorded under hash h, in processing order
Subsequence(occs, h) ==
    IF occs = <<>> THEN <<>>
    ELSE (IF Head(occs).hash = h THEN <<Head(occs).entry>> ELSE <<>>)
         \o Subsequence(Tail(occs), h)

\* an index that keeps under each hash the last entry only, as the plain
\* dict hash_to_entity_data does
extract_last_per_hash(cfg, doc, ids) ==
    LET absolute_entities == expand_insert_entities(doc)
        occs == [i \in DOMAIN absolute_entities |->
                    Occurrence(cfg, absolute_entities[i], ids[i])]
    IN  [h \in {occs[i].hash : i \in DOMAIN occs} |->
            LET under == Subsequence(occs, h) IN <<under[Len(under)]>>]

\* entities_by_hash after the loop; ids[i] is id() of the i-th absolute entity
extract_entities_from_doc(cfg, doc, ids) ==
    LET absolute_entities == expand_insert_entities(doc)
        occs == [i \in DOMAIN absolute_entities |->
                    Occurrence(cfg, absolute_entities[i], ids[i])]
    IN  [h \in {occs[i].hash : i \in DOMAIN occs} |-> Subsequence(occs, h)]

(***************************************************************************)
(* LayerConfig and OutputGenerator                                         *)
(***************************************************************************)
\* the default colors of compare_dxf_files_and_generate_dxf
DeletedColor == 1
AddedColor == 3
UnchangedColor == 4

layer_settings ==
    ("DELETED" :> [name |-> "DELETED", color |-> DeletedColor])
    @@ ("ADDED" :> [name |-> "ADDED", color |-> AddedColor])
    @@ ("UNCHANGED" :> [name |-> "UNCHANGED", color |-> UnchangedColor])

get_layer_name(diff_type) ==
    IF diff_type \in DOMAIN layer_settings THEN layer_settings[diff_type].name ELSE "0"

get_layer_color(diff_type) ==
    IF diff_type \in DOMAIN layer_settings THEN layer_settings[diff_type].color ELSE 256

\* dxfattribs that keep the layer and the color of the source entity
OutputAttribsOfSource(attrs, layer_name, layer_color) ==
    [k \in DOMAIN attrs \ excluded_attributes |-> attrs[k]]

\* dxfattribs of create_entity_from_absolute: the attributes with the layer
\* and the color of the target layer written over them
OutputAttribs(attrs, layer_name, layer_color) ==
    [k \in (DOMAIN attrs \ excluded_attributes) \cup {"layer", "color"} |->
        IF k = "layer" THEN layer_name
        ELSE IF k = "color" THEN layer_color
        ELSE attrs[k]]

\* f"[{entity_type}]" for the entity types that reach the last branch
BracketLabel(entity_type) ==
    CASE entity_type = "INSERT" -> "[INSERT]"
      [] entity_type = "ELLIPSE" -> "[ELLIPSE]"
      [] entity_type = "SHAPE" -> "[SHAPE]"
      [] entity_type = "RAY" -> "[RAY]"
      [] OTHER -> "[]"

\* f"[{attrib_tag}]" for the tags of the model
TagLabel(attrib_tag) ==
    CASE attrib_tag = "PART" -> "[PART]"
      [] attrib_tag = "REV" -> "[REV]"
      [] OTHER -> "[]"

\* f overwritten by g where g is defined
Updated(f, g) == [k \in DOMAIN f \cup DOMAIN g |-> IF k \in DOMAIN g THEN g[k] ELSE f[k]]

\* the add_* call of the drawing space raises: the source entity hands on an
\* attribute value the new entity cannot take (an extrusion that is no
\* vector), for the branches that pass dxfattribs on
RenderRaises(absolute_entity) ==
    /\ absolute_entity.dxftype \in {"LINE", "CIRCLE", "ARC", "TEXT", "MTEXT", "POINT"}
    /\ Get(absolute_entity.attributes, "extrusion", <<0, 0, 1>>) = Malformed3d

\* What create_entity_from_absolute adds to the output drawing space: a
\* sequence of one entity, or of none where the code adds nothing (its
\* handler returns False).  An added entity is [dxftype, dxf], its text kept
\* in dxf.text.
create_entity_from_absolute(absolute_entity, layer_name, layer_color) ==
    LET entity_type == absolute_entity.dxftype
        attrs       == absolute_entity.attributes
        dxfattribs  == OutputAttribs(attrs, layer_name, layer_color)
        text_content == Get(absolute_entity, "text_content", "")
    IN  IF RenderRaises(absolute_entity) THEN <<>>
        ELSE
        CASE entity_type = "LINE" ->
               << [dxftype |-> "LINE",
                   dxf |-> Updated(dxfattribs,
                              [start |-> Get(attrs, "start", <<0, 0, 0>>),
                               end   |-> Get(attrs, "end", <<1000, 1000, 0>>)])] >>
          [] entity_type = "CIRCLE" ->
               << [dxftype |-> "CIRCLE",
                   dxf |-> Updated(dxfattribs,
                              [center |-> Get(attrs, "center", <<0, 0, 0>>),
                               radius |-> Get(attrs, "radius", 1000)])] >>
          [] entity_type = "ARC" ->
               << [dxftype |-> "ARC",
                   dxf |-> Updated(dxfattribs,
                              [center      |-> Get(attrs, "center", <<0, 0, 0>>),
                               radius      |-> Get(attrs, "radius", 1000),
                               start_angle |-> Get(attrs, "start_angle", 0),
                               end_angle   |-> Get(attrs, "end_angle", 90000)])] >>
          [] entity_type \in {"TEXT", "MTEXT"} ->
               << [dxftype |-> entity_type,
                   dxf |-> Updated(dxfattribs,
                              [insert |-> Get(attrs, "insert", <<0, 0, 0>>),
                               text   |-> text_content])] >>
          [] entity_type = "ATTRIB" ->
               LET attrib_tag   == Get(absolute_entity, "attrib_tag", "")
                   display_text == IF text_content \notin {"", None} THEN text_content
                                   ELSE TagLabel(attrib_tag)
               IN  << [dxftype |-> "TEXT",
                       dxf |-> [layer    |-> layer_name,
                                insert   |-> Get(attrs, "insert", <<0, 0, 0>>),
                                height   |-> Get(dxfattribs, "height", 2500),
                                rotation |-> Get(dxfattribs, "rotation", 0),
                                color    |-> layer_color,
                                style    |-> Get(dxfattribs, "style", "Standard"),
                                text     |-> display_text]] >>
          [] entity_type = "POINT" ->
               << [dxftype |-> "POINT",
                   dxf |-> Updated(dxfattribs,
                              [location |-> Get(attrs, "location", <<0, 0, 0>>)])] >>
          [] entity_type = "LWPOLYLINE" ->
               IF Get(attrs, "vertices", <<>>) = <<>> THEN <<>>
               ELSE << [dxftype |-> "LWPOLYLINE",
                        dxf |-> [layer  |-> layer_name,
                                 color  |-> layer_color,
                                 points |-> attrs.vertices,
                                 closed |-> Len(attrs.vertices) >= 3]] >>
          [] OTHER ->
               << [dxftype |-> "TEXT",
                   dxf |-> [layer  |-> layer_name,
                            insert |-> Get(attrs, "insert",
                                           Get(attrs, "center", <<0, 0, 0>>)),
                            height |-> 2500,
                            color  |-> layer_color,
                            text   |-> BracketLabel(entity_type)]] >>

\* a renderer that takes the instance recorded last
LastOccurrence(entities, entity_hash) ==
    entities[entity_hash][Len(entities[entity_hash])][2].absolute_entity

\* the first instance recorded under entity_hash in the owning index
FirstOccurrence(entities, entity_hash) == entities[entity_hash][1][2].absolute_entity

\* a renderer that gives up the whole loop over a class when one entity of
\* the class cannot be created
RepresentativesUnlessOneFails(diff_type, hashes, entities) ==
    IF \E g \in hashes \cap DOMAIN entities : RenderRaises(FirstOccurrence(entities, g))
    THEN {}
    ELSE UNION {{[diff_type |-> diff_type, hash |-> h, entity |-> added[i]] :
                    i \in DOMAIN added} :
                <<h, added>> \in
                   {<<g, create_entity_from_absolute(FirstOccurrence(entities, g),
                                                     get_layer_name(diff_type),
                                                     get_layer_color(diff_type))>> :
                       g \in hashes \cap DOMAIN entities}}

\* for entity_hash in hashes: what the first instance recorded in entities
\* adds to the drawing space, each added entity kept with its class and the
\* hash it stands for
Representatives(diff_type, hashes, entities) ==
    UNION {{[diff_type |-> diff_type, hash |-> h, entity |-> added[i]] :
               i \in DOMAIN added} :
           <<h, added>> \in
              {<<g, create_entity_from_absolute(FirstOccurrence(entities, g),
                                                get_layer_name(diff_type),
                                                get_layer_color(diff_type))>> :
                  g \in hashes \cap DOMAIN entities}}

\* an UNCHANGED loop that reads the index of document B
UnchangedFromB(ents_a, ents_b) == ents_b

\* for entity_hash in common_hashes: if entity_hash in entities_a: the
\* UNCHANGED loop reads the index of document A
UnchangedSource(ents_a, ents_b) == ents_a

\* new_doc of create_diff_dxf just before saveas: its layer table and its
\* drawing space (each added entity kept with the hash it stands for)
BuildDiffDoc(ents_a, ents_b, deleted, added, common) ==
    [layers |-> {[name  |-> get_layer_name(d), color |-> get_layer_color(d)]
                    : d \in {"DELETED", "ADDED", "UNCHANGED"}},
     msp    |-> Representatives("DELETED", deleted, ents_a)
                \cup Representatives("ADDED", added, ents_b)
                \cup Representatives("UNCHANGED", common,
                                    UnchangedSource(ents_a, ents_b))]

\* a create_diff_dxf that reports success whatever saveas did
SaveResultAlwaysTrue(saved) == "True"

\* what create_diff_dxf returns: True after saveas, False from its handler
SaveResult(saved) == IF saved THEN "True" ELSE "False"

(***************************************************************************)
(* compare_dxf_files_and_generate_dxf, step by step                        *)
(***************************************************************************)
\* a diff that forgets to take the keys of B out of DELETED
DeletedOfKeepingCommon(hashes_a, hashes_b) == hashes_a

\* the differences of the key sets
DeletedOf(hashes_a, hashes_b) == hashes_a \ hashes_b
AddedOf(hashes_a, hashes_b) == hashes_b \ hashes_a
CommonOf(hashes_a, hashes_b) == hashes_a \cap hashes_b

\* the absolute entities of doc whose signature construction fails
MalformedIndexes(cfg, doc) ==
    LET absolute_entities == expand_insert_entities(doc)
    IN  {i \in DOMAIN absolute_entities : SignatureRaises(cfg, absolute_entities[i])}

\* The addresses id() can return for the records of one call.  In every
\* family a record whose signature fails stems from an entity of its own in
\* the drawing space, so both indexes together hold at most MaxEntities.
Addresses == 1 .. MaxEntities

\* id() of the records living in an index whose signature is the fallback
ErrorIds(entities) ==
    {entities[h][1][2].data.absolute_signature[2][2] :
        h \in {g \in DOMAIN entities :
                  IsErrorSignature(entities[g][1][2].data.absolute_signature)}}

\* id() of the absolute entities of doc: distinct for the records that are
\* alive together, otherwise whatever the allocator gives.  Only the ids the
\* fallback reads are chosen; 0 stands for an id nothing reads.  Addresses
\* are compared for equality only, so they are interchangeable: the first
\* call of a session takes them in the order of allocation, and a later call
\* takes any of them, equal to or different from those of the first.
IdChoices(cfg, doc, live, first_call) ==
    LET n   == Len(expand_insert_entities(doc))
        bad == MalformedIndexes(cfg, doc)
    IN  IF first_call
        THEN {[i \in 1..n |->
                 IF i \in bad
                 THEN Cardinality(live) + Cardinality({j \in bad : j <= i})
                 ELSE 0]}
        ELSE {[i \in 1..n |-> IF i \in bad THEN f[i] ELSE 0] :
                 f \in {g \in [bad -> Addresses \ live] :
                           \A i, j \in bad : i # j => g[i] # g[j]}}

\* the pairs of files of a family
InputPairs(fam) ==
    {<<Document(p[1], Families[fam].blocks),
       Document(p[2], Get(Families[fam], "blocks_b", Families[fam].blocks))>> :
        p \in {q \in SeqsUpTo(Families[fam].pool, MaxEntities)
                      \X SeqsUpTo(Families[fam].pool, MaxEntities) :
                  Len(q[1]) + Len(q[2]) <= MaxEntities}}

Init ==
    /\ family \in DOMAIN Families
    /\ tolerance \in Tolerances
    /\ \E files \in InputPairs(family) : file_a = files[1] /\ file_b = files[2]
    /\ pc = "read_a"
    /\ doc_a = <<>> /\ doc_b = <<>>
    /\ entities_a = <<>> /\ entities_b = <<>>
    /\ deleted_hashes = {} /\ added_hashes = {} /\ common_hashes = {}
    /\ new_doc = <<>> /\ output_file = <<>>
    /\ success = None /\ failure = "none"
    /\ prev = <<>>
    /\ calls = <<>>
    /\ probe = <<>>

\* doc_a = ezdxf.readfile(file_a)
ReadA ==
    /\ pc = "read_a"
    /\ \/ /\ doc_a' = <<file_a>>
          /\ pc' = "read_b"
          /\ UNCHANGED <<success, failure>>
       \/ /\ failure' = "read_a"
          /\ success' = "False"
          /\ pc' = "done"
          /\ UNCHANGED doc_a
    /\ UNCHANGED <<probe, calls, family, file_a, file_b, tolerance, doc_b, entities_a, entities_b,
                   deleted_hashes, added_hashes, common_hashes, new_doc,
                   output_file, prev>>

\* doc_b = ezdxf.readfile(file_b)
ReadB ==
    /\ pc = "read_b"
    /\ \/ /\ doc_b' = <<file_b>>
          /\ pc' = "extract_a"
          /\ UNCHANGED <<success, failure>>
       \/ /\ failure' = "read_b"
          /\ success' = "False"
          /\ pc' = "done"
          /\ UNCHANGED doc_b
    /\ UNCHANGED <<probe, calls, family, file_a, file_b, tolerance, doc_a, entities_a, entities_b,
                   deleted_hashes, added_hashes, common_hashes, new_doc,
                   output_file, prev>>

\* entities_a, ... = diff_analyzer.extract_entities_from_doc(doc_a, "A", expander)
ExtractA ==
    /\ pc = "extract_a"
    /\ \E ids \in IdChoices(ToleranceConfig(tolerance), doc_a[1], {}, prev = <<>>) :
          entities_a' = extract_entities_from_doc(ToleranceConfig(tolerance),
                                                  doc_a[1], ids)
    /\ pc' = "extract_b"
    /\ UNCHANGED <<probe, calls, family, file_a, file_b, tolerance, doc_a, doc_b, entities_b,
                   deleted_hashes, added_hashes, common_hashes, new_doc,
                   output_file, success, failure, prev>>

\* entities_b, ... = diff_analyzer.extract_entities_from_doc(doc_b, "B", expander)
ExtractB ==
    /\ pc = "extract_b"
    /\ \E ids \in IdChoices(ToleranceConfig(tolerance), doc_b[1], ErrorIds(entities_a),
                            prev = <<>>) :
          entities_b' = extract_entities_from_doc(ToleranceConfig(tolerance),
                                                  doc_b[1], ids)
    /\ pc' = "diff"
    /\ UNCHANGED <<probe, calls, family, file_a, file_b, tolerance, doc_a, doc_b, entities_a,
                   deleted_hashes, added_hashes, common_hashes, new_doc,
                   output_file, success, failure, prev>>

\* the set differences of the key sets
ComputeDiff ==
    /\ pc = "diff"
    /\ deleted_hashes' = DeletedOf(DOMAIN entities_a, DOMAIN entities_b)
    /\ added_hashes' = AddedOf(DOMAIN entities_a, DOMAIN entities_b)
    /\ common_hashes' = CommonOf(DOMAIN entities_a, DOMAIN entities_b)
    /\ pc' = "render"
    /\ UNCHANGED <<probe, calls, family, file_a, file_b, tolerance, doc_a, doc_b, entities_a,
                   entities_b, new_doc, output_file, success, failure, prev>>

\* success = output_generator.create_diff_dxf(...); return success
CreateDiffDxf ==
    /\ pc = "render"
    /\ new_doc' = <<BuildDiffDoc(entities_a, entities_b, deleted_hashes,
                                 added_hashes, common_hashes)>>
    /\ \/ /\ output_file' = new_doc'
          /\ success' = SaveResult(TRUE)
          /\ UNCHANGED failure
       \/ /\ failure' = "save"
          /\ success' = SaveResult(FALSE)
          /\ UNCHANGED output_file
    /\ pc' = "done"
    /\ UNCHANGED <<probe, calls, family, file_a, file_b, tolerance, doc_a, doc_b, entities_a,
                   entities_b, deleted_hashes, added_hashes, common_hashes, prev>>

\* what a finished call leaves for the next call of the session to compare with
Snapshot(kind) ==
    [kind |-> kind, file_a |-> file_a, file_b |-> file_b, tolerance |-> tolerance,
     entities_a |-> entities_a, entities_b |-> entities_b,
     deleted_hashes |-> deleted_hashes, added_hashes |-> added_hashes,
     common_hashes |-> common_hashes, success |-> success]

\* the families whose sessions go on to a second call: the within-tolerance
\* LINEs of family 1 and the unroundable LINE of family 2.  A second call of
\* any family compares documents that a first call compares too.
SessionFamilies == {1, 2}

\* a second call of the session starts: every local of the first call is gone
StartNextCall(kind) ==
    /\ family \in SessionFamilies
    /\ pc = "done"
    /\ success = "True"
    /\ prev = <<>>
    /\ prev' = <<Snapshot(kind)>>
    /\ pc' = "read_a"
    /\ doc_a' = <<>> /\ doc_b' = <<>>
    /\ entities_a' = <<>> /\ entities_b' = <<>>
    /\ deleted_hashes' = {} /\ added_hashes' = {} /\ common_hashes' = {}
    /\ new_doc' = <<>> /\ output_file' = <<>>
    /\ success' = None /\ failure' = "none"
    /\ UNCHANGED <<probe, calls, family>>

\* the permutations of a sequence
Reorderings(s) ==
    {[i \in DOMAIN s |-> s[p[i]]] :
        p \in {q \in [DOMAIN s -> DOMAIN s] : \A i, j \in DOMAIN s : i # j => q[i] # q[j]}}

\* the caller compares the same two files the other way round
CallSwapped ==
    /\ StartNextCall("swapped")
    /\ file_a' = file_b
    /\ file_b' = file_a
    /\ UNCHANGED tolerance

\* the caller compares again after the entities of file A were reordered
CallPermuted ==
    /\ StartNextCall("permuted")
    /\ \E msp \in Reorderings(file_a.msp) : file_a' = [file_a EXCEPT !.msp = msp]
    /\ UNCHANGED <<file_b, tolerance>>

\* the caller compares the same two files with a larger tolerance
CallLargerTolerance ==
    /\ StartNextCall("tolerance")
    /\ \E t \in Tolerances : t > tolerance /\ tolerance' = t
    /\ UNCHANGED <<file_a, file_b>>

Next ==
    \/ ReadA
    \/ ReadB
    \/ ExtractA
    \/ ExtractB
    \/ ComputeDiff
    \/ CreateDiffDxf
    \/ CallSwapped
    \/ CallPermuted
    \/ CallLargerTolerance

Spec == Init /\ [][Next]_vars

(***************************************************************************)
(* Two calls of compare_dxf_files_and_generate_dxf side by side (two       *)
(* threads of the page server), on file pairs of their own.  Each call has *)
(* its locals in calls[p]; the statements of the two calls interleave in   *)
(* any order.  The interpreter's heap is the one thing the calls share:    *)
(* id() never returns the address of an object another live call holds.    *)
(***************************************************************************)
CallIds == {1, 2}

\* The file pairs a call is given: a malformed LINE on both sides, two
\* LINEs that differ within one of the tolerances only, a LINE against a
\* malformed LINE, and an added LINE.  Two different pairs hold at most three
\* malformed entities, one address each.
ConcurrentPairs ==
    { <<Document(<<HugeLine>>, <<>>), Document(<<HugeLine>>, <<>>)>>,
      <<Document(<<LineTo(10026)>>, <<>>), Document(<<LineTo(10030)>>, <<>>)>>,
      <<Document(<<LineTo(10030)>>, <<>>), Document(<<HugeLine>>, <<>>)>>,
      <<Document(<<>>, <<>>), Document(<<LineTo(10030)>>, <<>>)>> }

\* the locals of a call at its first statement
NewCall(files, t) ==
    [file_a |-> files[1], file_b |-> files[2],
     tolerance |-> t, pc |-> "read_a",
     entities_a |-> <<>>, entities_b |-> <<>>,
     deleted_hashes |-> {}, added_hashes |-> {}, common_hashes |-> {},
     success |-> None, failure |-> "none"]

InitConcurrent ==
    /\ \E f1 \in ConcurrentPairs, t1 \in Tolerances, t2 \in Tolerances :
          \E f2 \in ConcurrentPairs \ {f1} :
              calls = <<NewCall(f1, t1), NewCall(f2, t2)>>
    /\ family = 1
    /\ tolerance = 10
    /\ file_a = Document(<<>>, <<>>) /\ file_b = Document(<<>>, <<>>)
    /\ pc = "idle"
    /\ doc_a = <<>> /\ doc_b = <<>>
    /\ entities_a = <<>> /\ entities_b = <<>>
    /\ deleted_hashes = {} /\ added_hashes = {} /\ common_hashes = {}
    /\ new_doc = <<>> /\ output_file = <<>>
    /\ success = None /\ failure = "none"
    /\ prev = <<>>
    /\ probe = <<>>

\* a ToleranceConfig that the first call made and every call uses
ConfigOfFirstCall(p) == ToleranceConfig(calls[1].tolerance)

\* tolerance_config = ToleranceConfig(tolerance): a local of the call
ConfigOfCall(p) == ToleranceConfig(calls[p].tolerance)

\* id() of the records the calls that still run hold in their indexes
LiveIds ==
    UNION {ErrorIds(calls[p].entities_a) \cup ErrorIds(calls[p].entities_b) :
              p \in {c \in CallIds : calls[c].pc # "done"}}

\* doc_a = ezdxf.readfile(file_a) in call p
ConcurrentReadA(p) ==
    /\ calls[p].pc = "read_a"
    /\ \/ calls' = [calls EXCEPT ![p].pc = "read_b"]
       \/ calls' = [calls EXCEPT ![p].pc = "done", ![p].failure = "read_a",
                                 ![p].success = "False"]
    /\ UNCHANGED <<session, probe>>

\* doc_b = ezdxf.readfile(file_b) in call p
ConcurrentReadB(p) ==
    /\ calls[p].pc = "read_b"
    /\ \/ calls' = [calls EXCEPT ![p].pc = "extract_a"]
       \/ calls' = [calls EXCEPT ![p].pc = "done", ![p].failure = "read_b",
                                 ![p].success = "False"]
    /\ UNCHANGED <<session, probe>>

\* extract_entities_from_doc(doc_a, "A", expander) in call p
ConcurrentExtractA(p) ==
    /\ calls[p].pc = "extract_a"
    /\ \E ids \in IdChoices(ConfigOfCall(p), calls[p].file_a, LiveIds, FALSE) :
          calls' = [calls EXCEPT
                       ![p].entities_a =
                           extract_entities_from_doc(ConfigOfCall(p), calls[p].file_a, ids),
                       ![p].pc = "extract_b"]
    /\ UNCHANGED <<session, probe>>

\* extract_entities_from_doc(doc_b, "B", expander) in call p
ConcurrentExtractB(p) ==
    /\ calls[p].pc = "extract_b"
    /\ \E ids \in IdChoices(ConfigOfCall(p), calls[p].file_b, LiveIds, FALSE) :
          calls' = [calls EXCEPT
                       ![p].entities_b =
                           extract_entities_from_doc(ConfigOfCall(p), calls[p].file_b, ids),
                       ![p].pc = "diff"]
    /\ UNCHANGED <<session, probe>>

\* the set differences of the key sets in call p
ConcurrentComputeDiff(p) ==
    /\ calls[p].pc = "diff"
    /\ calls' = [calls EXCEPT
                    ![p].deleted_hashes = DeletedOf(DOMAIN calls[p].entities_a,
                                                    DOMAIN calls[p].entities_b),
                    ![p].added_hashes = AddedOf(DOMAIN calls[p].entities_a,
                                                DOMAIN calls[p].entities_b),
                    ![p].common_hashes = CommonOf(DOMAIN calls[p].entities_a,
                                                  DOMAIN calls[p].entities_b),
                    ![p].pc = "render"]
    /\ UNCHANGED <<session, probe>>

\* success = output_generator.create_diff_dxf(...); return success, in call p
ConcurrentCreateDiffDxf(p) ==
    /\ calls[p].pc = "render"
    /\ \/ calls' = [calls EXCEPT ![p].pc = "done", ![p].success = SaveResult(TRUE)]
       \/ calls' = [calls EXCEPT ![p].pc = "done", ![p].failure = "save",
                                 ![p].success = SaveResult(FALSE)]
    /\ UNCHANGED <<session, probe>>

NextConcurrent ==
    \E p \in CallIds :
        \/ ConcurrentReadA(p)
        \/ ConcurrentReadB(p)
        \/ ConcurrentExtractA(p)
        \/ ConcurrentExtractB(p)
        \/ ConcurrentComputeDiff(p)
        \/ ConcurrentCreateDiffDxf(p)

SpecConcurrent == InitConcurrent /\ [][NextConcurrent]_vars

(***************************************************************************)
(* The pure methods called on their own: one call of                       *)
(* normalize_coordinate_precise or of get_tolerance_for_entity on          *)
(* arguments drawn from bounded sets.  probe holds the arguments and, once *)
(* the call is over, its outcome.                                          *)
(***************************************************************************)
\* no compare call runs
SessionIdle ==
    /\ family = 1
    /\ tolerance = 10
    /\ file_a = Document(<<>>, <<>>) /\ file_b = Document(<<>>, <<>>)
    /\ pc = "idle"
    /\ doc_a = <<>> /\ doc_b = <<>>
    /\ entities_a = <<>> /\ entities_b = <<>>
    /\ deleted_hashes = {} /\ added_hashes = {} /\ common_hashes = {}
    /\ new_doc = <<>> /\ output_file = <<>>
    /\ success = None /\ failure = "none"
    /\ prev = <<>>
    /\ calls = <<>>

\* The values quantized: the small ones around zero with every tie of the
\* tolerances, and for each regime above the Decimal context (the fallback,
\* the overflow) values on and off a tie.
QuantizedValues ==
    (-25 .. 25)
    \cup {s * (DecimalLimit * t + d) :
             s \in {-1, 1}, t \in {10, 20}, d \in {0, 4, 5, 10, 15, 30}}
    \cup {s * (FloatLimit * t + d) : s \in {-1, 1}, t \in {10, 20}, d \in {0, 5}}

\* the tolerances a ToleranceConfig hands out for the base tolerances 0.01
\* and 0.02, and the tolerances for which the value is returned as it is
QuantizeTolerances == {-10, 0, 1, 2, 10, 20, 40}

\* the entity types and the attribute names a tolerance is looked up for;
\* None is the call without attribute
LookupTypes == {"TEXT", "MTEXT", "ATTRIB", "POINT", "LINE", "CIRCLE", "ARC", "INSERT"}
LookupAttributes ==
    {None, "height", "radius", "insert", "rotation", "start_angle",
     "connection_point", "Connection_Point", "connection_angle"}

InitMethods ==
    /\ SessionIdle
    /\ \/ \E value \in QuantizedValues, tol \in QuantizeTolerances :
             probe = [method |-> "normalize_coordinate_precise",
                      value |-> value, tolerance |-> tol, outcome |-> <<>>]
       \/ \E t \in Tolerances, entity_type \in LookupTypes,
             attribute \in LookupAttributes :
             probe = [method |-> "get_tolerance_for_entity",
                      base_tolerance |-> t, entity_type |-> entity_type,
                      attribute |-> attribute, outcome |-> <<>>]

\* one call of normalize_coordinate_precise: which block computed the
\* result and the float returned, or the exception that leaves the method
CallNormalize ==
    /\ probe # <<>>
    /\ probe.method = "normalize_coordinate_precise"
    /\ probe.outcome = <<>>
    /\ probe' = [probe EXCEPT !.outcome =
                   IF NormalizeRaises(probe.value, probe.tolerance)
                   THEN <<"raised", "OverflowError">>
                   ELSE <<"returned",
                          normalize_coordinate_precise(probe.value, probe.tolerance),
                          IF probe.tolerance <= 0 THEN "guard"
                          ELSE IF QuantizeRaises(probe.value, probe.tolerance)
                          THEN "except" ELSE "try">>]
    /\ UNCHANGED <<session, calls>>

\* one call of ToleranceConfig(base_tolerance).get_tolerance_for_entity
CallLookup ==
    /\ probe # <<>>
    /\ probe.method = "get_tolerance_for_entity"
    /\ probe.outcome = <<>>
    /\ probe' = [probe EXCEPT !.outcome =
                   <<"returned",
                     get_tolerance_for_entity(ToleranceConfig(probe.base_tolerance),
                                              probe.entity_type, probe.attribute)>>]
    /\ UNCHANGED <<session, calls>>

NextMethods ==
    \/ CallNormalize
    \/ CallLookup

SpecMethods == InitMethods /\ [][NextMethods]_vars

(***************************************************************************)
(* What the claims speak about                                             *)
(***************************************************************************)
\* the classification of the running call has been computed
Classified == pc = "render" \/ (pc = "done" /\ failure \in {"none", "save"})

KeysA == DOMAIN entities_a
KeysB == DOMAIN entities_b

\* the occurrences of an index: each absolute entity with the hash it is under
Records(entities) ==
    UNION {{[hash |-> h, absolute_entity |-> entities[h][i][2].absolute_entity] :
               i \in DOMAIN entities[h]} : h \in DOMAIN entities}

\* the signature construction of the record failed
Malformed(record) == IsErrorSignature(record.hash[2])

(***************************************************************************)
(* C1  The diff is DELETED = keys(A) - keys(B), ADDED = keys(B) - keys(A), *)
(* UNCHANGED = keys(A) /\ keys(B); the three sets are pairwise disjoint    *)
(* and their union is keys(A) \/ keys(B), so every fingerprint of either   *)
(* document is in exactly one class.                                       *)
(***************************************************************************)
C1_DiffPartition ==
    Classified =>
        /\ deleted_hashes = {h \in KeysA : h \notin KeysB}
        /\ added_hashes = {h \in KeysB : h \notin KeysA}
        /\ common_hashes = {h \in KeysA : h \in KeysB}
        /\ deleted_hashes \cap added_hashes = {}
        /\ deleted_hashes \cap common_hashes = {}
        /\ added_hashes \cap common_hashes = {}
        /\ deleted_hashes \cup added_hashes \cup common_hashes = KeysA \cup KeysB
        /\ \A h \in KeysA \cup KeysB :
              Cardinality({c \in {"D", "A", "U"} :
                              \/ c = "D" /\ h \in deleted_hashes
                              \/ c = "A" /\ h \in added_hashes
                              \/ c = "U" /\ h \in common_hashes}) = 1

\* a diff in which each of the three classes holds a fingerprint
C1_Witness ==
    /\ Classified
    /\ deleted_hashes # {} /\ added_hashes # {} /\ common_hashes # {}

(***************************************************************************)
(* C2  Idempotence: comparing a document with itself (the same content as  *)
(* file A and as file B of one call) yields empty DELETED and ADDED, and   *)
(* every fingerprint of the document is UNCHANGED, also when the document  *)
(* holds entities whose signature construction fails.                      *)
(***************************************************************************)
C2_SelfCompareIsUnchanged ==
    (Classified /\ file_a = file_b) =>
        /\ deleted_hashes = {}
        /\ added_hashes = {}
        /\ common_hashes = KeysA
        /\ common_hashes = KeysB

\* the part of C2 the code keeps: a self comparison in which no signature
\* construction fails classifies every fingerprint as UNCHANGED
C2_SelfCompareWellFormed ==
    (Classified /\ file_a = file_b
     /\ \A r \in Records(entities_a) \cup Records(entities_b) : ~ Malformed(r)) =>
        /\ deleted_hashes = {}
        /\ added_hashes = {}
        /\ common_hashes = KeysA

(***************************************************************************)
(* C3  Tolerance monotonicity: for fixed files and base tolerances         *)
(* t1 < t2, every pair of entities matched (UNCHANGED) at t1 is still      *)
(* matched at t2; a larger tolerance never moves an entity from UNCHANGED  *)
(* into ADDED or DELETED.                                                  *)
(***************************************************************************)
\* the running call repeats the previous one with a larger tolerance
RepeatsWithLargerTolerance ==
    /\ Classified
    /\ prev # <<>>
    /\ prev[1].kind = "tolerance"

\* C3: two entities matched at the first tolerance are still matched, and
\* UNCHANGED, at the larger one
C3_ToleranceMonotone ==
    RepeatsWithLargerTolerance =>
        \A a1 \in Records(prev[1].entities_a), b1 \in Records(prev[1].entities_b) :
            a1.hash = b1.hash =>
                \A a2 \in Records(entities_a), b2 \in Records(entities_b) :
                    (/\ a2.absolute_entity = a1.absolute_entity
                     /\ b2.absolute_entity = b1.absolute_entity)
                    => (a2.hash = b2.hash /\ a2.hash \in common_hashes)

(***************************************************************************)
(* C4  Coordinate differences within the tolerance are ignored: an entity  *)
(* of A and an entity of B that are identical except that corresponding    *)
(* coordinates differ by less than the applicable tolerance receive the    *)
(* same fingerprint and are classified UNCHANGED.                          *)
(***************************************************************************)
\* the coordinate attributes of x and y differ, each by less than tol
CoordinatesWithin(x, y, tol) ==
    /\ \A k \in DOMAIN x \cap coordinate_attrs :
          \A i \in DOMAIN x[k] : Abs(x[k][i] - y[k][i]) < tol
    /\ \E k \in DOMAIN x \cap coordinate_attrs : x[k] # y[k]

\* x and y are alike but for coordinates that differ by less than the
\* tolerance of their entity type
AlikeWithinTolerance(cfg, x, y) ==
    /\ x.dxftype = y.dxftype
    /\ DOMAIN x = DOMAIN y
    /\ \A f \in DOMAIN x \ {"attributes"} : x[f] = y[f]
    /\ DOMAIN x.attributes = DOMAIN y.attributes
    /\ \A k \in DOMAIN x.attributes \ coordinate_attrs :
          x.attributes[k] = y.attributes[k]
    /\ CoordinatesWithin(x.attributes, y.attributes,
                         get_tolerance_for_entity(cfg, x.dxftype, None))

\* C4: entities of A and B that agree but for coordinates less than the
\* tolerance apart are UNCHANGED, neither DELETED nor ADDED
C4_WithinToleranceIsUnchanged ==
    Classified =>
        \A a \in Records(entities_a), b \in Records(entities_b) :
            AlikeWithinTolerance(ToleranceConfig(tolerance),
                                 a.absolute_entity, b.absolute_entity)
            => (a.hash = b.hash /\ a.hash \in common_hashes)

\* a difference below the tolerance that the quantization does absorb
C4_AbsorbedDifference ==
    /\ Classified
    /\ \E a \in Records(entities_a), b \in Records(entities_b) :
          /\ AlikeWithinTolerance(ToleranceConfig(tolerance),
                                  a.absolute_entity, b.absolute_entity)
          /\ a.hash = b.hash
          /\ a.hash \in common_hashes

(***************************************************************************)
(* C5  A change beyond the tolerance is detected: two LINEs with the same  *)
(* layer and color of which one endpoint coordinate differs by more than   *)
(* the coordinate tolerance get different fingerprints; when A and B hold  *)
(* one such LINE each, DELETED holds the LINE of A, ADDED the LINE of B    *)
(* and UNCHANGED is empty.                                                 *)
(***************************************************************************)
IsLine(x) ==
    x.dxftype = "LINE" /\ {"start", "end", "layer", "color"} \subseteq DOMAIN x.attributes

LineMovedBeyond(cfg, x, y) ==
    /\ IsLine(x) /\ IsLine(y)
    /\ x.attributes.layer = y.attributes.layer
    /\ x.attributes.color = y.attributes.color
    /\ \E k \in {"start", "end"} : \E i \in 1..3 :
          Abs(x.attributes[k][i] - y.attributes[k][i]) > cfg.coordinate_tolerance

\* both drawing spaces hold one entity, a LINE, moved beyond the tolerance
OneMovedLineEach ==
    /\ Classified
    /\ Len(file_a.msp) = 1 /\ Len(file_b.msp) = 1
    /\ \E a \in Records(entities_a), b \in Records(entities_b) :
          LineMovedBeyond(ToleranceConfig(tolerance),
                          a.absolute_entity, b.absolute_entity)

\* C5: a LINE of A whose counterpart in B has an end point moved by more than
\* the tolerance is DELETED, the one of B is ADDED, neither is UNCHANGED
C5_ChangeBeyondToleranceDetected ==
    /\ Classified =>
          \A a \in Records(entities_a), b \in Records(entities_b) :
              LineMovedBeyond(ToleranceConfig(tolerance),
                              a.absolute_entity, b.absolute_entity)
              => a.hash # b.hash
    /\ (OneMovedLineEach /\ file_a.msp[1].dxftype = "LINE"
        /\ file_b.msp[1].dxftype = "LINE") =>
          /\ Cardinality(deleted_hashes) = 1 /\ deleted_hashes = KeysA
          /\ Cardinality(added_hashes) = 1 /\ added_hashes = KeysB
          /\ common_hashes = {}

\* A and B hold one LINE each, on one layer and with one color, whose end
\* differs by more than the tolerance
C5_Witness ==
    /\ OneMovedLineEach
    /\ file_a.msp[1].dxftype = "LINE" /\ file_b.msp[1].dxftype = "LINE"
    /\ pc = "done" /\ success = "True"

(***************************************************************************)
(* C6  Antisymmetry: DELETED of diff(A,B) equals ADDED of diff(B,A), ADDED *)
(* of diff(A,B) equals DELETED of diff(B,A), and UNCHANGED is the same in  *)
(* both directions.                                                        *)
(***************************************************************************)
\* the running call compares the files of the previous call the other way round
RepeatsSwapped ==
    /\ Classified
    /\ prev # <<>>
    /\ prev[1].kind = "swapped"

\* C6: diff(B, A) has DELETED and ADDED of diff(A, B) exchanged and the same
\* UNCHANGED
C6_Antisymmetry ==
    RepeatsSwapped =>
        /\ prev[1].deleted_hashes = added_hashes
        /\ prev[1].added_hashes = deleted_hashes
        /\ prev[1].common_hashes = common_hashes

\* no signature construction failed in the running call nor in the previous one
AllWellFormed ==
    /\ \A r \in Records(entities_a) \cup Records(entities_b) : ~ Malformed(r)
    /\ prev # <<>> =>
          \A r \in Records(prev[1].entities_a) \cup Records(prev[1].entities_b) :
              ~ Malformed(r)

\* the part of C6 the code keeps: the two directions agree when no signature
\* construction fails
C6_AntisymmetryWellFormed == (RepeatsSwapped /\ AllWellFormed) => C6_Antisymmetry

(***************************************************************************)
(* C7  Order invariance: permuting the order in which the entities of a    *)
(* document are declared leaves the set of keys of its fingerprint index   *)
(* unchanged.                                                              *)
(***************************************************************************)
\* the index of file A has been built
ExtractedA ==
    pc \in {"extract_b", "diff", "render"}
    \/ (pc = "done" /\ failure \in {"none", "save"})

\* the running call reads file A with its drawing space reordered
RepeatsPermuted ==
    /\ ExtractedA
    /\ prev # <<>>
    /\ prev[1].kind = "permuted"

\* C7: the keys of the index of a document do not depend on the order in
\* which its entities are declared
C7_OrderInvariance == RepeatsPermuted => KeysA = DOMAIN prev[1].entities_a

\* the part of C7 the code keeps: the keys are those of the first order when
\* no signature construction fails
C7_OrderInvarianceWellFormed ==
    (RepeatsPermuted
     /\ \A r \in Records(entities_a) \cup Records(prev[1].entities_a) : ~ Malformed(r))
    => C7_OrderInvariance

(***************************************************************************)
(* C8  Duplicate blindness: when A holds n >= 1 and B holds m >= 1         *)
(* occurrences of a structurally identical entity and n # m, the shared    *)
(* fingerprint is UNCHANGED and is neither ADDED nor DELETED.              *)
(***************************************************************************)
\* the hashes under which an index holds the absolute entity x
HashesOf(entities, x) == {r.hash : r \in {q \in Records(entities) : q.absolute_entity = x}}

\* how often an index holds the absolute entity x
Count(entities, x) ==
    Cardinality({p \in UNION {{<<h, i>> : i \in DOMAIN entities[h]} : h \in DOMAIN entities} :
                    entities[p[1]][p[2]][2].absolute_entity = x})

\* x occurs in both documents, a different number of times
UnequalCounts(x) ==
    /\ Count(entities_a, x) >= 1
    /\ Count(entities_b, x) >= 1
    /\ Count(entities_a, x) # Count(entities_b, x)

\* C8: an entity held n >= 1 times by A and m >= 1 times by B, n # m, is under
\* one shared fingerprint, which is UNCHANGED and neither ADDED nor DELETED
C8_DuplicateBlindness ==
    Classified =>
        \A x \in {r.absolute_entity : r \in Records(entities_a)} :
            UnequalCounts(x) =>
                \E h \in common_hashes :
                    /\ HashesOf(entities_a, x) = {h}
                    /\ HashesOf(entities_b, x) = {h}
                    /\ h \notin deleted_hashes \cup added_hashes

\* the part of C8 the code keeps: duplicates whose signature is built
C8_DuplicateBlindnessWellFormed == AllWellFormed => C8_DuplicateBlindness

\* duplicates with unequal counts under one fingerprint
C8_SharedFingerprint ==
    /\ Classified
    /\ \E h \in common_hashes : Len(entities_a[h]) # Len(entities_b[h])

(***************************************************************************)
(* C9  Block placement: when A and B both hold an INSERT of one block at   *)
(* one insertion point (rotation 0, scale 1), every entity of the block is *)
(* expanded to absolute coordinates (block point plus insertion point) and *)
(* is UNCHANGED; when the insertion point of B is displaced by more than   *)
(* the tolerance, the expanded entity is DELETED at the position of A and  *)
(* ADDED at the position of B, and not UNCHANGED.                          *)
(***************************************************************************)
IsPlainInsert(doc, e) ==
    /\ e.dxftype = "INSERT"
    /\ e.dxf.name \in DOMAIN doc.blocks
    /\ Get(e.dxf, "rotation", 0) = 0
    /\ Get(e.dxf, "xscale", 1) = 1 /\ Get(e.dxf, "yscale", 1) = 1
    /\ Get(e.dxf, "zscale", 1) = 1

Offset(point, by) == [i \in DOMAIN point |-> point[i] + by[i]]

\* the attributes the claim expects of block entity e placed at insertion
\* point p: its own, every point moved by p
PlacedAttributes(e, p) ==
    [k \in DOMAIN e.dxf \ excluded_attributes |->
        IF k \in coordinate_attrs THEN Offset(e.dxf[k], p) ELSE e.dxf[k]]

\* the records of an index that stem from block entity e placed at p
PlacedRecords(entities, e, p) ==
    {r \in Records(entities) :
        /\ r.absolute_entity.dxftype = e.dxftype
        /\ r.absolute_entity.attributes = PlacedAttributes(e, p)
        /\ "insert_info" \in DOMAIN r.absolute_entity
        /\ r.absolute_entity.insert_info.insert_point = p}

\* some coordinate of p and q differs by more than tol
Displaced(p, q, tol) == \E i \in DOMAIN p : Abs(p[i] - q[i]) > tol

\* C9: a block placed at one point in A and B has every entity expanded to
\* block point plus insertion point and UNCHANGED; placed more than the
\* tolerance apart, the expanded entity is DELETED for A and ADDED for B
C9_BlockPlacement ==
    Classified =>
        \A i \in DOMAIN file_a.msp, j \in DOMAIN file_b.msp :
            LET ia == file_a.msp[i]
                ib == file_b.msp[j]
            IN  (/\ IsPlainInsert(file_a, ia) /\ IsPlainInsert(file_b, ib)
                 /\ ia.dxf.name = ib.dxf.name
                 /\ file_a.blocks[ia.dxf.name] = file_b.blocks[ib.dxf.name])
                => \A k \in DOMAIN file_a.blocks[ia.dxf.name] :
                      LET e  == file_a.blocks[ia.dxf.name][k]
                          ra == PlacedRecords(entities_a, e, ia.dxf.insert)
                          rb == PlacedRecords(entities_b, e, ib.dxf.insert)
                          tol == get_tolerance_for_entity(ToleranceConfig(tolerance),
                                                          e.dxftype, None)
                      IN  /\ ra # {} /\ rb # {}
                          /\ ia.dxf.insert = ib.dxf.insert =>
                                \A r \in ra : r.hash \in common_hashes
                          /\ Displaced(ia.dxf.insert, ib.dxf.insert, tol) =>
                                \A r \in ra, q \in rb : r.hash # q.hash
                          /\ (/\ Displaced(ia.dxf.insert, ib.dxf.insert, tol)
                              /\ Len(file_a.msp) = 1 /\ Len(file_b.msp) = 1) =>
                                /\ \A r \in ra : r.hash \in deleted_hashes
                                /\ \A q \in rb : q.hash \in added_hashes
                                /\ \A r \in ra \cup rb : r.hash \notin common_hashes

\* the part of C9 the code keeps: placements of blocks whose entities all
\* get a signature
C9_BlockPlacementWellFormed == AllWellFormed => C9_BlockPlacement

\* a block placed beyond the tolerance of its LINE: the LINE is DELETED at the
\* position of A and ADDED at the position of B
C9_DisplacedPlacement ==
    /\ Classified
    /\ Len(file_a.msp) = 1 /\ Len(file_b.msp) = 1
    /\ IsPlainInsert(file_a, file_a.msp[1]) /\ IsPlainInsert(file_b, file_b.msp[1])
    /\ Displaced(file_a.msp[1].dxf.insert, file_b.msp[1].dxf.insert, tolerance)
    /\ \E r \in Records(entities_a) : r.absolute_entity.dxftype = "LINE" /\ r.hash \in deleted_hashes
    /\ \E r \in Records(entities_b) : r.absolute_entity.dxftype = "LINE" /\ r.hash \in added_hashes

\* a block placed at one point in A and B, its entities UNCHANGED
C9_SamePlacement ==
    /\ Classified
    /\ Len(file_a.msp) = 1 /\ Len(file_b.msp) = 1
    /\ IsPlainInsert(file_a, file_a.msp[1])
    /\ file_a.msp[1] = file_b.msp[1]
    /\ Cardinality(common_hashes) = Len(file_a.blocks[file_a.msp[1].dxf.name])

(***************************************************************************)
(* C10  Document-level failures are fatal: when reading file A or file B   *)
(* fails the call returns False and no output document is created or       *)
(* saved; when saving the output fails the call returns False.             *)
(***************************************************************************)
C10_DocumentFailuresAreFatal ==
    /\ failure # "none" => pc = "done"
    /\ (pc = "done" /\ failure \in {"read_a", "read_b"}) =>
          /\ success = "False"
          /\ new_doc = <<>>
          /\ output_file = <<>>
    /\ (pc = "done" /\ failure = "save") =>
          /\ success = "False"
          /\ output_file = <<>>
    /\ (pc = "done" /\ failure = "none") =>
          /\ success = "True"
          /\ output_file = new_doc /\ new_doc # <<>>

\* file A was read and reading file B failed
C10_Witness ==
    /\ pc = "done"
    /\ failure = "read_b"
    /\ doc_a # <<>>
    /\ success = "False"

\* the output was built and saving it failed
C10_SaveFailed ==
    /\ pc = "done"
    /\ failure = "save"
    /\ new_doc # <<>>

(***************************************************************************)
(* C11  Entity-level failures never escalate: an entity (or INSERT) that   *)
(* fails during transform, attribute extraction or signature construction  *)
(* is skipped, every other entity of the document is expanded,             *)
(* fingerprinted and classified as it would be without the failing entity, *)
(* and the call returns success when both inputs were read and the output  *)
(* was saved.                                                              *)
(***************************************************************************)
\* the entity of the drawing space fails somewhere on its way into the index
FailingEntity(cfg, doc, entity) ==
    \/ Fault(entity) # "none"
    \/ entity.dxftype = "INSERT" /\ "insert" \notin DOMAIN entity.dxf
    \/ \E i \in DOMAIN ExpandEntity(doc, entity) :
          SignatureRaises(cfg, ExpandEntity(doc, entity)[i])

\* the document without its failing entities
WithoutFailing(cfg, doc) ==
    [doc EXCEPT !.msp = SelectSeq(doc.msp, LAMBDA e : ~ FailingEntity(cfg, doc, e))]

\* the index the document has without its failing entities (no signature of
\* it falls back, so no id() is read)
HealthyIndex(cfg, doc) ==
    LET healthy == WithoutFailing(cfg, doc)
    IN  extract_entities_from_doc(cfg, healthy,
            [i \in DOMAIN expand_insert_entities(healthy) |-> 0])

HealthyA == HealthyIndex(ToleranceConfig(tolerance), file_a)
HealthyB == HealthyIndex(ToleranceConfig(tolerance), file_b)

\* the other entities are classified as they are without the failing ones
HealthyClassification(keys_a, keys_b) ==
    \A h \in keys_a \cup keys_b :
        /\ h \in deleted_hashes <=> h \in DeletedOf(keys_a, keys_b)
        /\ h \in added_hashes <=> h \in AddedOf(keys_a, keys_b)
        /\ h \in common_hashes <=> h \in CommonOf(keys_a, keys_b)

\* a failing entity never ends the call: it ends by a document-level failure
\* or with success
FailuresStayLocal ==
    (pc = "done" /\ failure = "none") => (success = "True" /\ output_file = new_doc)

\* C11 as stated: the failing entities leave no record, the others are
\* indexed and classified as without them, and the call succeeds
C11_FailingEntityIsSkipped ==
    Classified =>
        LET healthy_a == HealthyA
            healthy_b == HealthyB
        IN  /\ Records(entities_a) = Records(healthy_a)
            /\ Records(entities_b) = Records(healthy_b)
            /\ HealthyClassification(DOMAIN healthy_a, DOMAIN healthy_b)
            /\ FailuresStayLocal

\* the record is one a failing entity leaves: under the fallback signature
\* when signature construction failed, without attributes when they could
\* not be read
LeftByFailure(record) ==
    Malformed(record) \/ record.absolute_entity.attributes = <<>>

\* C11 amended: an entity whose transform (or whose INSERT expansion) fails
\* is skipped, one whose attributes cannot be read is kept without
\* attributes, one whose signature construction fails is kept under the
\* fallback signature; the other entities are indexed and classified as
\* without the failing ones, and the call succeeds when both inputs were
\* read and the output was saved
C11_FailuresNeverEscalate ==
    Classified =>
        LET healthy_a == HealthyA
            healthy_b == HealthyB
            records_a == Records(healthy_a)
            records_b == Records(healthy_b)
        IN
        /\ records_a \subseteq Records(entities_a)
        /\ records_b \subseteq Records(entities_b)
        /\ \A r \in Records(entities_a) \ records_a : LeftByFailure(r)
        /\ \A r \in Records(entities_b) \ records_b : LeftByFailure(r)
        /\ \A doc \in {file_a, file_b} : \A i \in DOMAIN doc.msp :
              (TransformRaises(doc.msp[i])
               \/ (doc.msp[i].dxftype = "INSERT" /\ "insert" \notin DOMAIN doc.msp[i].dxf))
              => ExpandEntity(doc, doc.msp[i]) = <<>>
        /\ HealthyClassification(DOMAIN healthy_a, DOMAIN healthy_b)
        /\ FailuresStayLocal

\* a call that read a LINE whose transform raises beside a healthy LINE,
\* skipped the one, classified the other and returned True
C11_Witness ==
    /\ pc = "done" /\ success = "True"
    /\ \E i \in DOMAIN file_a.msp : TransformRaises(file_a.msp[i])
    /\ Len(file_a.msp) = 2
    /\ Cardinality(Records(entities_a)) = 1
    /\ deleted_hashes \cup common_hashes # {}

(***************************************************************************)
(* C12  Output layers: the output document has the layers DELETED, ADDED   *)
(* and UNCHANGED with the configured colors (1, 3, 4 by default); every    *)
(* entity emitted carries the name and the color of the layer of its       *)
(* classification, whatever layer and color the source entity had, and no  *)
(* emitted entity is on another layer.                                     *)
(***************************************************************************)
\* the class a fingerprint was given by the diff
ClassOf(h) ==
    IF h \in deleted_hashes THEN "DELETED"
    ELSE IF h \in added_hashes THEN "ADDED"
    ELSE IF h \in common_hashes THEN "UNCHANGED"
    ELSE None

ColorOf(diff_type) ==
    CASE diff_type = "DELETED" -> DeletedColor
      [] diff_type = "ADDED" -> AddedColor
      [] diff_type = "UNCHANGED" -> UnchangedColor

\* C12: the three layers exist with their colors and every emitted entity is
\* on the layer of its classification, in the color of that layer
C12_OutputLayers ==
    new_doc # <<>> =>
        /\ \A d \in {"DELETED", "ADDED", "UNCHANGED"} :
              [name |-> d, color |-> ColorOf(d)] \in new_doc[1].layers
        /\ \A e \in new_doc[1].msp :
              /\ ClassOf(e.hash) \in {"DELETED", "ADDED", "UNCHANGED"}
              /\ e.diff_type = ClassOf(e.hash)
              /\ e.entity.dxf.layer = ClassOf(e.hash)
              /\ e.entity.dxf.color = ColorOf(ClassOf(e.hash))

\* an output holding a DELETED and an UNCHANGED entity, in colors 1 and 4,
\* whose sources were on layer L1 in color 7
C12_Witness ==
    /\ new_doc # <<>>
    /\ \A d \in {"DELETED", "UNCHANGED"} :
          \E e \in new_doc[1].msp :
              /\ e.diff_type = d
              /\ e.entity.dxf.layer = d
              /\ e.entity.dxf.color = ColorOf(d)
    /\ \A h \in DOMAIN entities_a :
          /\ entities_a[h][1][2].absolute_entity.attributes # <<>>
          /\ entities_a[h][1][2].absolute_entity.attributes.layer = "L1"
          /\ entities_a[h][1][2].absolute_entity.attributes.color = 7

(***************************************************************************)
(* C13  Representatives: for each fingerprint of each class the renderer   *)
(* materializes one occurrence, the first recorded under the fingerprint   *)
(* in the owning index (A for DELETED and UNCHANGED, B for ADDED), so the  *)
(* output never holds more than |DELETED| + |ADDED| + |UNCHANGED|          *)
(* entities, however many duplicates the inputs hold.                      *)
(***************************************************************************)
\* the index that owns the fingerprints of a class
OwningIndex(diff_type) == IF diff_type = "ADDED" THEN entities_b ELSE entities_a

\* the absolute entities of file A that are not left by a failure, in the
\* order of the document
InOrderA == expand_insert_entities(WithoutFailing(ToleranceConfig(tolerance), file_a))

\* the entities the output holds for fingerprint h of class d
EmittedFor(d, h) == {e.entity : e \in {x \in new_doc[1].msp : x.diff_type = d /\ x.hash = h}}

\* C13: each classified fingerprint is drawn once (not at all when its
\* entity cannot be created), from the occurrence that comes first in its
\* document, and the output holds no more entities than there are classified
\* fingerprints
C13_OneRepresentative ==
    new_doc # <<>> =>
        /\ \A e \in new_doc[1].msp : e.hash \in DOMAIN OwningIndex(e.diff_type)
        /\ \A h \in deleted_hashes \cup added_hashes \cup common_hashes :
              LET d     == ClassOf(h)
                  first == OwningIndex(d)[h][1][2].absolute_entity
              IN  /\ Cardinality(EmittedFor(d, h))
                        = (IF RenderRaises(first) THEN 0 ELSE 1)
                  /\ EmittedFor(d, h) =
                        Range(create_entity_from_absolute(first, d, ColorOf(d)))
        /\ LET in_order == InOrderA
           IN  \A h \in DOMAIN entities_a :
                  LET under == {entities_a[h][k][2].absolute_entity :
                                   k \in DOMAIN entities_a[h]}
                  IN  \A i \in DOMAIN in_order :
                         (/\ in_order[i] \in under
                          /\ \A j \in 1 .. (i - 1) : in_order[j] \notin under)
                         => entities_a[h][1][2].absolute_entity = in_order[i]
        /\ Cardinality(new_doc[1].msp)
              <= Cardinality(deleted_hashes) + Cardinality(added_hashes)
                 + Cardinality(common_hashes)

\* file A holds two LINEs that differ within the tolerance, in this order;
\* they share one fingerprint and the output holds the first of them only
C13_Witness ==
    /\ new_doc # <<>>
    /\ file_a.msp = <<LineTo(10026), LineTo(10030)>>
    /\ Cardinality(DOMAIN entities_a) = 1
    /\ \A e \in new_doc[1].msp : e.entity.dxf.end = <<10000, 10026, 0>>
    /\ Cardinality(new_doc[1].msp) = 1

(***************************************************************************)
(* C14  Volatile identifiers never influence a signature: two entities     *)
(* that agree on kind, geometry, layer, color, text and placement but      *)
(* differ in handle, owner, reactor links or in-memory identity get the    *)
(* same signature and fingerprint, on every path of signature construction *)
(* including the error fallback.                                           *)
(***************************************************************************)
\* the two entities agree on everything but the excluded attributes
SameButVolatile(x, y) ==
    /\ x.dxftype = y.dxftype
    /\ safe_get_dxf_attributes(x) = safe_get_dxf_attributes(y)
    /\ x.attribs = y.attribs
    /\ Fault(x) = Fault(y)

\* C14: entities of A and B that agree on everything but volatile
\* identifiers are indexed under the same fingerprints
C14_VolatileIdentifiersIgnored ==
    Classified =>
        \A i \in DOMAIN file_a.msp, j \in DOMAIN file_b.msp :
            SameButVolatile(file_a.msp[i], file_b.msp[j]) =>
                \A x \in Range(ExpandEntity(file_a, file_a.msp[i])) :
                    /\ HashesOf(entities_a, x) = HashesOf(entities_b, x)
                    /\ Cardinality(HashesOf(entities_a, x)) = 1

\* the part of C14 the code keeps: handle and owner never reach a signature
\* that is built
C14_VolatileIdentifiersIgnoredWellFormed ==
    AllWellFormed => C14_VolatileIdentifiersIgnored

\* a LINE of A and the same LINE under another handle in B, UNCHANGED
C14_OtherHandleMatched ==
    /\ Classified
    /\ file_a.msp = <<LineTo(10030)>>
    /\ file_b.msp = <<Rehandled(LineTo(10030))>>
    /\ Cardinality(common_hashes) = 1
    /\ deleted_hashes \cup added_hashes = {}

(***************************************************************************)
(* C16  Deterministic placeholder: a failure while building a signature    *)
(* is replaced by a deterministic placeholder, so a malformed entity gets  *)
(* the same signature and fingerprint each time the same content is        *)
(* processed, in either document and in any run, and signature             *)
(* construction never aborts the pass.                                     *)
(***************************************************************************)
\* every absolute entity of the document whose signature construction fails
\* is in the index all the same
FailedSignaturesIndexed(doc, entities) ==
    \A x \in Range(expand_insert_entities(doc)) :
        SignatureRaises(ToleranceConfig(tolerance), x) => HashesOf(entities, x) # {}

\* malformed records of the same content have the same fingerprint
SamePlaceholder(records, others) ==
    \A a \in records, b \in others :
        (Malformed(a) /\ a.absolute_entity = b.absolute_entity) => a.hash = b.hash

\* C16: a malformed entity has one fingerprint, within a document, across
\* the two documents and across the calls of a session, and it is indexed
C16_DeterministicPlaceholder ==
    Classified =>
        /\ FailedSignaturesIndexed(file_a, entities_a)
        /\ FailedSignaturesIndexed(file_b, entities_b)
        /\ SamePlaceholder(Records(entities_a), Records(entities_a))
        /\ SamePlaceholder(Records(entities_a), Records(entities_b))
        /\ prev # <<>> =>
              SamePlaceholder(Records(entities_a) \cup Records(entities_b),
                              Records(prev[1].entities_a) \cup Records(prev[1].entities_b))

\* the part of C16 the code keeps: a failed signature construction never
\* aborts the pass, the entity is indexed
C16_FailedSignatureKeepsThePass ==
    Classified =>
        /\ FailedSignaturesIndexed(file_a, entities_a)
        /\ FailedSignaturesIndexed(file_b, entities_b)

\* a call that indexed a malformed LINE and returned True
C16_MalformedIndexed ==
    /\ pc = "done" /\ success = "True"
    /\ \E r \in Records(entities_a) : Malformed(r)

(***************************************************************************)
(* C15  Independent comparisons share no mutable state: two calls on       *)
(* different file pairs whose steps interleave in any order each produce   *)
(* the classification and the success flag they produce when run alone.    *)
(***************************************************************************)
\* a classification, read as the class of every absolute entity indexed
ClassificationOf(ents_a, ents_b, deleted, added, common) ==
    {<<"DELETED", r.absolute_entity>> : r \in {q \in Records(ents_a) : q.hash \in deleted}}
    \cup {<<"ADDED", r.absolute_entity>> : r \in {q \in Records(ents_b) : q.hash \in added}}
    \cup {<<"UNCHANGED", r.absolute_entity>> :
             r \in {q \in Records(ents_a) \cup Records(ents_b) : q.hash \in common}}

\* the classification of a call that runs alone on the two files
ClassificationAlone(doc_1, doc_2, t) ==
    LET cfg    == ToleranceConfig(t)
        ents_a == extract_entities_from_doc(cfg, doc_1,
                     CHOOSE ids \in IdChoices(cfg, doc_1, {}, TRUE) : TRUE)
        ents_b == extract_entities_from_doc(cfg, doc_2,
                     CHOOSE ids \in IdChoices(cfg, doc_2, ErrorIds(ents_a), TRUE) : TRUE)
    IN  ClassificationOf(ents_a, ents_b,
                         DeletedOf(DOMAIN ents_a, DOMAIN ents_b),
                         AddedOf(DOMAIN ents_a, DOMAIN ents_b),
                         CommonOf(DOMAIN ents_a, DOMAIN ents_b))

\* C15: whatever the other call does meanwhile, a call classifies its files
\* as a call running alone does, and returns True unless one of its own
\* documents could not be read or saved
C15_CallsAreIndependent ==
    \A p \in DOMAIN calls :
        /\ calls[p].pc \in {"render", "done"} /\ calls[p].failure \in {"none", "save"} =>
              ClassificationOf(calls[p].entities_a, calls[p].entities_b,
                               calls[p].deleted_hashes, calls[p].added_hashes,
                               calls[p].common_hashes)
              = ClassificationAlone(calls[p].file_a, calls[p].file_b, calls[p].tolerance)
        /\ calls[p].pc = "done" =>
              calls[p].success = (IF calls[p].failure = "none" THEN "True" ELSE "False")

\* both calls are done with success, on different files and tolerances, one
\* of them holding malformed entities, the other one a pair that only its
\* own tolerance matches
C15_Witness ==
    /\ DOMAIN calls = CallIds
    /\ \A p \in CallIds : calls[p].pc = "done" /\ calls[p].success = "True"
    /\ calls[1].tolerance = 20 /\ calls[2].tolerance = 10
    /\ calls[1].file_a.msp = <<HugeLine>> /\ calls[1].file_b.msp = <<HugeLine>>
    /\ calls[2].file_a.msp = <<LineTo(10026)>> /\ calls[2].file_b.msp = <<LineTo(10030)>>
    /\ Cardinality(calls[2].common_hashes) = 1
    /\ Cardinality(calls[1].deleted_hashes) = 1

(***************************************************************************)
(* C17  The signature of an ATTRIB contains its tag name: two ATTRIBs that *)
(* agree in position, value, layer, color and owning placement and differ  *)
(* in the tag have different signatures and fingerprints.                  *)
(***************************************************************************)
\* the records of the ATTRIBs indexed for either document
AttribRecords ==
    {r \in Records(entities_a) \cup Records(entities_b) :
        r.absolute_entity.dxftype = "ATTRIB"}

\* absolute ATTRIBs that differ in the tag and in nothing else
SameButTag(x, y) ==
    /\ "tag" \in DOMAIN x.attributes /\ "tag" \in DOMAIN y.attributes
    /\ x.attributes.tag # y.attributes.tag
    /\ DOMAIN x.attributes = DOMAIN y.attributes
    /\ \A k \in DOMAIN x.attributes \ {"tag"} : x.attributes[k] = y.attributes[k]
    /\ x.text_content = y.text_content
    /\ x.insert_info = y.insert_info

\* the tag_ part of a signature that was built
TagPart(signature) ==
    {signature[i][2] : i \in {j \in 2..Len(signature) : signature[j][1] = "tag"}}

\* C17: ATTRIBs that differ in the tag only have different fingerprints, and
\* the signature of an ATTRIB names its tag
C17_TagInSignature ==
    Classified =>
        /\ \A r \in AttribRecords, q \in AttribRecords :
              SameButTag(r.absolute_entity, q.absolute_entity) => r.hash # q.hash
        /\ \A r \in AttribRecords :
              TagPart(r.hash[2]) = {r.absolute_entity.attributes.tag}

\* what the code does instead: nothing sets attrib_tag, so the tag part of
\* every ATTRIB signature is empty
C17_TagPartIsEmpty ==
    Classified => \A r \in AttribRecords : TagPart(r.hash[2]) = {""}

\* the PART attribute of A and the REV attribute of B, same value and place,
\* are classified UNCHANGED
C17_OtherTagMatched ==
    /\ Classified
    /\ file_a.msp = <<InsertWith("B3", <<Attrib("PART", "R1")>>)>>
    /\ file_b.msp = <<InsertWith("B3", <<Attrib("REV", "R1")>>)>>
    /\ Cardinality(common_hashes) = 1
    /\ deleted_hashes \cup added_hashes = {}

(***************************************************************************)
(* C18  An entity of a kind other than LINE, CIRCLE, ARC, TEXT, MTEXT,     *)
(* ATTRIB, POINT and polyline is rendered as a text label "[kind]"         *)
(* anchored at its insert point if it has one, else its center, else its   *)
(* start point, else the origin.                                           *)
(***************************************************************************)
\* the entity types create_entity_from_absolute has a branch for
RenderedKinds == {"LINE", "CIRCLE", "ARC", "TEXT", "MTEXT", "ATTRIB", "POINT", "LWPOLYLINE"}

\* insert, center or start, in that order of preference, else the origin
BestAnchor(attrs) ==
    Get(attrs, "insert", Get(attrs, "center", Get(attrs, "start", <<0, 0, 0>>)))

\* the entities of the output drawn for an entity of another kind, each with
\* the absolute entity it is drawn from
LabelledSources ==
    {<<e.entity, FirstOccurrence(OwningIndex(e.diff_type), e.hash)>> :
        e \in {x \in new_doc[1].msp :
                  FirstOccurrence(OwningIndex(x.diff_type), x.hash).dxftype
                      \notin RenderedKinds}}

\* C18: an entity of another kind is drawn as the TEXT "[kind]" at its
\* insert, else its center, else its start, else the origin
C18_LabelAtBestAnchor ==
    new_doc # <<>> =>
        \A p \in LabelledSources :
            /\ p[1].dxftype = "TEXT"
            /\ p[1].dxf.text = BracketLabel(p[2].dxftype)
            /\ p[1].dxf.insert = BestAnchor(p[2].attributes)

\* what the code does instead: the label is at the insert, else at the
\* center, else at the origin, whatever the start is
C18_LabelAtInsertOrCenter ==
    new_doc # <<>> =>
        \A p \in LabelledSources :
            /\ p[1].dxftype = "TEXT"
            /\ p[1].dxf.text = BracketLabel(p[2].dxftype)
            /\ p[1].dxf.insert =
                  (IF "insert" \in DOMAIN p[2].attributes THEN p[2].attributes.insert
                   ELSE IF "center" \in DOMAIN p[2].attributes
                   THEN p[2].attributes.center
                   ELSE <<0, 0, 0>>)

\* the RAY that starts at (9,5) is labelled "[RAY]" at the origin, next to
\* an ELLIPSE labelled at its center and a SHAPE labelled at its insert
C18_RayLabelledAtOrigin ==
    /\ new_doc # <<>>
    /\ file_a.msp = <<Ray, Ellipse, Shape>>
    /\ {<<p[1].dxf.text, p[1].dxf.insert>> : p \in LabelledSources}
          = {<<"[RAY]", <<0, 0, 0>>>>, <<"[ELLIPSE]", <<5000, 5000, 0>>>>,
             <<"[SHAPE]", <<7000, 5000, 0>>>>}

(***************************************************************************)
(* C19  When block scaling was applied to an entity, its height and radius *)
(* are compared at double tolerance: two block-expanded CIRCLEs with scale *)
(* factors set, identical in every other respect, whose radii quantize to  *)
(* the same value at twice the tolerance receive the same signature.       *)
(***************************************************************************)
\* the records of the CIRCLEs that come out of a scaled placement
ScaledCircleRecords ==
    {r \in Records(entities_a) \cup Records(entities_b) :
        /\ r.absolute_entity.dxftype = "CIRCLE"
        /\ r.absolute_entity.scale_factors # <<>>
        /\ "radius" \in DOMAIN r.absolute_entity.attributes}

\* absolute CIRCLEs that differ in the radius at most
SameButRadius(x, y) ==
    /\ DOMAIN x.attributes = DOMAIN y.attributes
    /\ \A k \in DOMAIN x.attributes \ {"radius"} : x.attributes[k] = y.attributes[k]
    /\ x.scale_factors = y.scale_factors
    /\ x.insert_info = y.insert_info
    /\ x.text_content = y.text_content

\* the radius quantized at twice the tolerance of the call
RadiusAtDoubleTolerance(x) ==
    normalize_coordinate_precise(
        x.attributes.radius,
        get_tolerance_for_entity(ToleranceConfig(tolerance), "CIRCLE", "radius") * 2)

\* the values a signature holds under the prefix: radius_ or circle_
PartsNamed(signature, prefix) ==
    {signature[i] : i \in {j \in 2..Len(signature) : signature[j][1] = prefix}}

\* C19: scaled CIRCLEs that differ in the radius only, by less than twice
\* the tolerance resolves, have the same fingerprint
C19_ScaledRadiusAtDoubleTolerance ==
    Classified =>
        \A r \in ScaledCircleRecords, q \in ScaledCircleRecords :
            (/\ SameButRadius(r.absolute_entity, q.absolute_entity)
             /\ RadiusAtDoubleTolerance(r.absolute_entity)
                   = RadiusAtDoubleTolerance(q.absolute_entity))
            => r.hash = q.hash

\* what the code does instead: the radius_ part of a scaled CIRCLE is taken
\* at twice the tolerance, and its circle_ part repeats the radius at the
\* tolerance itself
C19_RadiusTwiceInSignature ==
    Classified =>
        \A r \in ScaledCircleRecords :
            LET x == r.absolute_entity
            IN  /\ PartsNamed(r.hash[2], "radius")
                      = {<<"radius", RadiusAtDoubleTolerance(x)>>}
                /\ \A c \in PartsNamed(r.hash[2], "circle") :
                      c[3] = normalize_coordinate_precise(
                                 x.attributes.radius,
                                 ToleranceConfig(tolerance).length_tolerance)
                /\ PartsNamed(r.hash[2], "circle") # {}

\* block BC placed at scale 2 in both files, radius 10.012 in A and 10.026 in
\* B, at tolerance 0.01: one CIRCLE DELETED and one ADDED
C19_ScaledCirclesSplit ==
    /\ Classified
    /\ tolerance = 10
    /\ file_a.msp = <<InsertScaled("BC", 2)>>
    /\ file_b.msp = <<InsertScaled("BC", 2)>>
    /\ Cardinality(deleted_hashes) = 1 /\ Cardinality(added_hashes) = 1
    /\ common_hashes = {}

\* the same block placed at scale 1, radius 5.006 in A and 5.013 in B, at
\* tolerance 0.01: UNCHANGED
C19_UnscaledCirclesMatched ==
    /\ Classified
    /\ tolerance = 10
    /\ file_a.msp = <<InsertScaled("BC", 1)>>
    /\ file_b.msp = <<InsertScaled("BC", 1)>>
    /\ Cardinality(common_hashes) = 1
    /\ deleted_hashes \cup added_hashes = {}

(***************************************************************************)
(* C20  An ATTRIB is rendered as a TEXT whose content is the attribute's   *)
(* value when the value is non-empty, and otherwise the attribute's tag    *)
(* name enclosed in square brackets.                                       *)
(***************************************************************************)
\* the entities of the output drawn for an ATTRIB, each with the absolute
\* entity it is drawn from
AttribSources ==
    {<<e.entity, FirstOccurrence(OwningIndex(e.diff_type), e.hash)>> :
        e \in {x \in new_doc[1].msp :
                  FirstOccurrence(OwningIndex(x.diff_type), x.hash).dxftype = "ATTRIB"}}

\* the value of an absolute ATTRIB is empty
EmptyValue(x) == x.text_content \in {"", None}

\* C20: an ATTRIB is drawn as a TEXT that shows its value, or "[tag]" when
\* the value is empty
C20_AttribDrawnAsValueOrTag ==
    new_doc # <<>> =>
        \A p \in AttribSources :
            /\ p[1].dxftype = "TEXT"
            /\ p[1].dxf.text = (IF EmptyValue(p[2]) THEN TagLabel(p[2].attributes.tag)
                                ELSE p[2].text_content)

\* what the code does instead: nothing sets attrib_tag, so an ATTRIB without
\* value is drawn as "[]"
C20_AttribDrawnAsValueOrBrackets ==
    new_doc # <<>> =>
        \A p \in AttribSources :
            /\ p[1].dxftype = "TEXT"
            /\ p[1].dxf.text = (IF EmptyValue(p[2]) THEN "[]" ELSE p[2].text_content)

\* the PART attribute without value is drawn as "[]", the REV attribute of
\* value R1 as "R1"
C20_EmptyValueDrawnAsBrackets ==
    /\ new_doc # <<>>
    /\ file_a.msp = <<InsertWith("B3", <<Attrib("PART", "")>>)>>
    /\ file_b.msp = <<InsertWith("B3", <<Attrib("REV", "R1")>>)>>
    /\ {<<p[2].attributes.tag, p[1].dxf.text>> : p \in AttribSources}
          = {<<"PART", "[]">>, <<"REV", "R1">>}

(***************************************************************************)
(* C21  quantize(value, tolerance) with tolerance > 0 returns the multiple *)
(* of tolerance nearest to value, so |quantize(value, tolerance) - value|  *)
(* <= tolerance/2, and a value halfway between two multiples is resolved   *)
(* by one fixed tie-breaking rule, the same on the precise-arithmetic path *)
(* and on the floating-point fallback path.                                *)
(***************************************************************************)
\* the number a float of the model stands for
Signed(float) == IF float[1] = "-" THEN 0 - float[2] ELSE float[2]

\* a call of normalize_coordinate_precise with tolerance > 0 is over
Quantized ==
    /\ probe # <<>>
    /\ probe.method = "normalize_coordinate_precise"
    /\ probe.tolerance > 0
    /\ probe.outcome # <<>>

\* result is the multiple of tol nearest to value, the even multiple when
\* value is halfway between two
NearestMultiple(result, value, tol) ==
    /\ result % tol = 0
    /\ 2 * Abs(result - value) <= tol
    /\ 2 * Abs(result - value) = tol => (result \div tol) % 2 = 0

LookedUp ==
    /\ probe # <<>>
    /\ probe.method = "get_tolerance_for_entity"
    /\ probe.outcome # <<>>

\* the attribute names of the lookups that contain "connection", in any
\* case, and those that contain "angle" or "rotation"
NamesConnection == {"connection_point", "Connection_Point", "connection_angle"}
NamesAngle == {"rotation", "start_angle", "connection_angle"}

\* C22: the tolerance returned is 2t for the text kinds, else 0.1t for a
\* POINT or a connection attribute, else 0.1 for an angle, else t
C22_ToleranceLookup ==
    LookedUp =>
        LET t    == probe.base_tolerance
            kind == probe.entity_type
            name == probe.attribute
        IN  /\ probe.outcome[1] = "returned"
            /\ probe.outcome[2] =
                  (IF kind \in {"TEXT", "MTEXT", "ATTRIB"} THEN 2 * t
                   ELSE IF kind = "POINT" THEN t \div 10
                   ELSE IF name \in NamesConnection THEN t \div 10
                   ELSE IF name \in NamesAngle THEN 100
                   ELSE t)

\* the rotation of a TEXT is looked up at base tolerance 0.02: 0.04, not
\* the angle tolerance
C22_Witness ==
    /\ LookedUp
    /\ probe.entity_type = "TEXT" /\ probe.attribute = "rotation"
    /\ probe.base_tolerance = 20
    /\ probe.outcome = <<"returned", 40>>

(***************************************************************************)
(* C23  A polyline's signature uses only its first five vertices: two      *)
(* polylines with the same layer and color whose first five vertices       *)
(* quantize identically receive the same fingerprint (and are UNCHANGED)   *)
(* whatever their vertices from the sixth on and whatever their total      *)
(* vertex count.                                                           *)
(***************************************************************************)
\* the records of the polylines indexed for a document
PolylineRecords(entities) ==
    {r \in Records(entities) : r.absolute_entity.dxftype = "LWPOLYLINE"}

\* the first five vertices of an absolute polyline, quantized at the
\* tolerance of the call
QuantizedLead(x) ==
    LET vertices == Get(x.attributes, "vertices", <<>>)
    IN  [i \in 1 .. (IF Len(vertices) < 5 THEN Len(vertices) ELSE 5) |->
            NormalizePoint(vertices[i], ToleranceConfig(tolerance).coordinate_tolerance)]

\* two absolute polylines of the same layer, color and provenance whose
\* first five vertices quantize identically
SameLead(x, y) ==
    /\ Get(x.attributes, "layer", None) = Get(y.attributes, "layer", None)
    /\ Get(x.attributes, "color", None) = Get(y.attributes, "color", None)
    /\ SignatureInsertPoint(x) = SignatureInsertPoint(y)
    /\ QuantizedLead(x) = QuantizedLead(y)

\* C23: polylines of A and B that agree on layer, color and the first five
\* quantized vertices share one fingerprint, which is UNCHANGED
C23_FirstFiveVertices ==
    Classified =>
        \A r \in PolylineRecords(entities_a), q \in PolylineRecords(entities_b) :
            SameLead(r.absolute_entity, q.absolute_entity) =>
                r.hash = q.hash /\ r.hash \in common_hashes

\* a polyline of six vertices in A and one of seven in B, different from the
\* sixth vertex on, are UNCHANGED
C23_Witness ==
    /\ Classified
    /\ file_a.msp = <<Zigzag(6, 0, 0)>>
    /\ file_b.msp = <<Zigzag(7, 4, 5000)>>
    /\ Cardinality(common_hashes) = 1
    /\ deleted_hashes \cup added_hashes = {}

(***************************************************************************)
(* C24  Block expansion is single-level: for an INSERT in drawing space    *)
(* whose block contains a nested INSERT, the nested INSERT yields exactly  *)
(* one record of kind INSERT carrying its own un-expanded attributes, and  *)
(* no entity of the block referenced by the nested INSERT appears in the   *)
(* fingerprint index through that placement.                               *)
(***************************************************************************)
\* the placements of the drawing space whose block holds an INSERT, each
\* with the position of that INSERT in the block
NestedPlacements(doc) ==
    {<<i, k>> \in (DOMAIN doc.msp) \X (1 .. MaxEntities) :
        /\ doc.msp[i].dxftype = "INSERT"
        /\ "insert" \in DOMAIN doc.msp[i].dxf
        /\ doc.msp[i].dxf.name \in DOMAIN doc.blocks
        /\ k \in DOMAIN doc.blocks[doc.msp[i].dxf.name]
        /\ doc.blocks[doc.msp[i].dxf.name][k].dxftype = "INSERT"}

\* the occurrences indexed for the placement at msp[i]: those expanded from
\* its block at its insertion point
IndexedThrough(doc, entities, i) ==
    {x \in {r.absolute_entity : r \in Records(entities)} :
        /\ "insert_info" \in DOMAIN x
        /\ x.insert_info.block_name = doc.msp[i].dxf.name
        /\ x.insert_info.insert_point = doc.msp[i].dxf.insert}

\* the nested INSERT of the placement is indexed once, as an INSERT that
\* keeps its own attributes (its insertion point placed by the outer INSERT),
\* and nothing of the block it names is indexed through the placement
NestedKeptAsInsert(doc, entities) ==
    \A p \in NestedPlacements(doc) :
        LET outer  == doc.msp[p[1]]
            nested == doc.blocks[outer.dxf.name][p[2]]
            placed == IndexedThrough(doc, entities, p[1])
            own    == {x \in placed : x.dxftype = "INSERT"
                                      /\ x.attributes.name = nested.dxf.name}
        IN  /\ Cardinality(own) = 1
            /\ \A x \in own :
                  /\ DOMAIN x.attributes = DOMAIN nested.dxf \ excluded_attributes
                  /\ \A a \in DOMAIN x.attributes \ {"insert"} :
                        x.attributes[a] = nested.dxf[a]
                  /\ x.attributes.insert =
                        transform_point(nested.dxf.insert,
                                        create_transformation_matrix(outer))
            /\ Cardinality(placed)
                  = Cardinality({k \in DOMAIN doc.blocks[outer.dxf.name] :
                                    doc.blocks[outer.dxf.name][k].dxftype # "ATTDEF"})
                    + Len(outer.attribs)
            /\ \A x \in placed :
                  \E k \in DOMAIN doc.blocks[outer.dxf.name] :
                      x.dxftype = doc.blocks[outer.dxf.name][k].dxftype

AttachedAttribs(doc) ==
    UNION {{<<doc.msp[i], doc.msp[i].attribs[k]>> : k \in DOMAIN doc.msp[i].attribs} :
              i \in {j \in DOMAIN doc.msp :
                        /\ doc.msp[j].dxftype = "INSERT"
                        /\ "insert" \in DOMAIN doc.msp[j].dxf
                        /\ doc.msp[j].dxf.name \in DOMAIN doc.blocks}}

\* the attached ATTRIB is indexed with the attributes it stores, unscaled,
\* under the insertion point of its INSERT
IndexedAsStored(entities, pair) ==
    \E r \in Records(entities) :
        LET x == r.absolute_entity
        IN  /\ x.dxftype = "ATTRIB"
            /\ x.attributes = Restrict(pair[2].dxf, DOMAIN pair[2].dxf \ excluded_attributes)
            /\ x.scale_factors = <<>>
            /\ "insert_info" \in DOMAIN x
            /\ x.insert_info.insert_point = pair[1].dxf.insert

\* a signature without its from_insert_ part
WithoutInsertPoint(signature) ==
    LET Kept(part) == part[1] # "from_insert"
    IN  <<signature[1]>> \o SelectSeq(Tail(signature), Kept)

\* C25: every attached ATTRIB is indexed with its stored position and
\* height, and ATTRIBs that store the same differ in their signatures by the
\* insertion point of their INSERT at most
C25_AttribsKeepStoredValues ==
    Classified =>
        /\ \A pair \in AttachedAttribs(file_a) : IndexedAsStored(entities_a, pair)
        /\ \A pair \in AttachedAttribs(file_b) : IndexedAsStored(entities_b, pair)
        /\ \A r \in AttribRecords, q \in AttribRecords :
              (/\ r.absolute_entity.attributes = q.absolute_entity.attributes
               /\ r.absolute_entity.text_content = q.absolute_entity.text_content)
              => WithoutInsertPoint(r.hash[2]) = WithoutInsertPoint(q.hash[2])

\* the attribute of a plain placement in A and of the placement turned and
\* scaled in the same spot in B are UNCHANGED; moved, DELETED and ADDED
C25_Witness ==
    /\ Classified
    /\ file_a.msp = <<PlacedWith("B3", <<Attrib("PART", "R1")>>, 100000, 0, 1)>>
    /\ file_b.msp = <<PlacedWith("B3", <<Attrib("PART", "R1")>>, 100000, 90, 2),
                      PlacedWith("B3", <<Attrib("PART", "R1")>>, 150000, 90, 2)>>
    /\ Cardinality(common_hashes) = 1
    /\ Cardinality(added_hashes) = 1
    /\ deleted_hashes = {}

(***************************************************************************)
(* C26  A failure to materialize one representative entity in the output   *)
(* is isolated: that entity is skipped, every other classified fingerprint *)
(* is still rendered on its layer, the output is still saved, and compare  *)
(* still returns success.                                                  *)
(***************************************************************************)
\* the classified fingerprints whose representative cannot be created
Unmaterialized ==
    {h \in deleted_hashes \cup added_hashes \cup common_hashes :
        RenderRaises(FirstOccurrence(OwningIndex(ClassOf(h)), h))}

\* C26: a representative that cannot be created leaves nothing in the
\* output, every other fingerprint has its entity on the layer of its class,
\* and unless saving fails the document is stored and the call returns True
C26_RenderFailureIsolated ==
    (pc = "done" /\ new_doc # <<>>) =>
        /\ \A h \in Unmaterialized : EmittedFor(ClassOf(h), h) = {}
        /\ \A h \in (deleted_hashes \cup added_hashes \cup common_hashes)
                       \ Unmaterialized :
              /\ Cardinality(EmittedFor(ClassOf(h), h)) = 1
              /\ \A e \in EmittedFor(ClassOf(h), h) : e.dxf.layer = ClassOf(h)
        /\ failure = "none" => (output_file = new_doc /\ success = "True")

\* A holds a LINE and a LINE the output cannot take, B another LINE: the
\* output is saved with the two LINEs that can be created
C26_Witness ==
    /\ pc = "done" /\ failure = "none" /\ success = "True"
    /\ file_a.msp = <<LineTo(10030), Unrenderable(LineTo(12000))>>
    /\ file_b.msp = <<LineTo(11000)>>
    /\ Cardinality(Unmaterialized) = 1
    /\ {<<e.diff_type, e.entity.dxf.layer>> : e \in output_file[1].msp}
          = {<<"DELETED", "DELETED">>, <<"ADDED", "ADDED">>}

(***************************************************************************)
(* C27  Provenance is part of the comparison key: an entity placed         *)
(* directly in drawing space and an entity expanded from a block that ends *)
(* at exactly the same absolute geometry, layer and color never share a    *)
(* fingerprint, because the block-expanded signature also carries the      *)
(* quantized insertion point; replacing a block instance in A by           *)
(* equivalent exploded geometry in B is reported as DELETED plus ADDED.    *)
(***************************************************************************)
\* the absolute entity comes out of a block
FromBlockPlacement(x) ==
    "insert_info" \in DOMAIN x /\ ~ Get(x, "is_direct_modelspace", FALSE)

\* x and y are the same absolute geometry, layer, color and text
SameAbsolute(x, y) ==
    /\ x.dxftype = y.dxftype
    /\ x.attributes = y.attributes
    /\ x.text_content = y.text_content

\* C27: a direct entity and a block-expanded entity never share a
\* fingerprint, so when A holds block placements only and B direct entities
\* only, every entity of A is DELETED and every entity of B is ADDED
C27_ProvenanceInKey ==
    Classified =>
        /\ \A r \in Records(entities_a) \cup Records(entities_b),
              q \in Records(entities_a) \cup Records(entities_b) :
              (~ FromBlockPlacement(r.absolute_entity)
               /\ FromBlockPlacement(q.absolute_entity)) => r.hash # q.hash
        /\ ((\A r \in Records(entities_a) : FromBlockPlacement(r.absolute_entity))
             /\ (\A q \in Records(entities_b) : ~ FromBlockPlacement(q.absolute_entity)))
           => (/\ common_hashes = {}
               /\ deleted_hashes = DOMAIN entities_a
               /\ added_hashes = DOMAIN entities_b)

\* A places block B1, B holds the same LINE and TEXT exploded: both entities
\* are DELETED and both ADDED, none is UNCHANGED
C27_Witness ==
    /\ Classified
    /\ file_a.msp = <<InsertAt("B1", 100000)>>
    /\ file_b.msp = <<ExplodedLine, ExplodedText>>
    /\ \A r \in Records(entities_a) : \E q \in Records(entities_b) :
          SameAbsolute(r.absolute_entity, q.absolute_entity)
    /\ Cardinality(deleted_hashes) = 2 /\ Cardinality(added_hashes) = 2
    /\ common_hashes = {}

(***************************************************************************)
(* C28  An INSERT whose block name is not present in the document's block  *)
(* table contributes no record at all to the fingerprint index, not even   *)
(* its attached ATTRIBs, and raises no error; adding or removing such an   *)
(* INSERT between A and B changes none of DELETED, ADDED and UNCHANGED.    *)
(***************************************************************************)
\* the entity is an INSERT of a block the document does not hold
Orphan(doc, entity) ==
    entity.dxftype = "INSERT" /\ entity.dxf.name \notin DOMAIN doc.blocks

\* the document with those INSERTs removed
WithoutOrphans(doc) ==
    [doc EXCEPT !.msp = SelectSeq(doc.msp, LAMBDA e : ~ Orphan(doc, e))]

\* the index of the document with those INSERTs removed (for a document
\* whose signatures are all built, so that no id() is read)
OrphanFreeIndex(cfg, doc) ==
    LET kept == WithoutOrphans(doc)
    IN  extract_entities_from_doc(cfg, kept,
            [i \in DOMAIN expand_insert_entities(kept) |-> 0])

\* every signature of the running call was built
SignaturesBuilt ==
    \A r \in Records(entities_a) \cup Records(entities_b) : ~ Malformed(r)

\* C28: no record of either index comes from a block the document does not
\* hold; the indexes, and so the three classes, are what they are without
\* the INSERTs of such blocks; and the call ends as it does without them
C28_MissingBlockContributesNothing ==
    Classified =>
        /\ \A r \in Records(entities_a) :
              FromBlockPlacement(r.absolute_entity) =>
                  r.absolute_entity.insert_info.block_name \in DOMAIN file_a.blocks
        /\ \A r \in Records(entities_b) :
              FromBlockPlacement(r.absolute_entity) =>
                  r.absolute_entity.insert_info.block_name \in DOMAIN file_b.blocks
        /\ SignaturesBuilt =>
              LET index_a == OrphanFreeIndex(ToleranceConfig(tolerance), file_a)
                  index_b == OrphanFreeIndex(ToleranceConfig(tolerance), file_b)
              IN  /\ entities_a = index_a /\ entities_b = index_b
                  /\ deleted_hashes = DeletedOf(DOMAIN index_a, DOMAIN index_b)
                  /\ added_hashes = AddedOf(DOMAIN index_a, DOMAIN index_b)
                  /\ common_hashes = CommonOf(DOMAIN index_a, DOMAIN index_b)
        /\ FailuresStayLocal

\* B is A plus a placement of a missing block that carries an attribute:
\* the call succeeds and everything is UNCHANGED
C28_Witness ==
    /\ pc = "done" /\ success = "True"
    /\ file_a.msp = <<LineTo(10030)>>
    /\ file_b.msp = <<InsertWith("Missing", <<Attrib("PART", "R1")>>), LineTo(10030)>>
    /\ Cardinality(common_hashes) = 1
    /\ deleted_hashes \cup added_hashes = {}

(***************************************************************************)
(* C29  The representative rendered for every UNCHANGED fingerprint is     *)
(* always taken from document A (its first occurrence there), never from   *)
(* document B, so the UNCHANGED layer shows A's geometry even when B's     *)
(* matching entity differs from it within tolerance.                       *)
(***************************************************************************)
\* what the UNCHANGED loop adds for one absolute entity
DrawnUnchanged(absolute_entity) ==
    Range(create_entity_from_absolute(absolute_entity,
                                      get_layer_name("UNCHANGED"),
                                      get_layer_color("UNCHANGED")))

\* the absolute entities document B holds under entity_hash
OccurrencesInB(entity_hash) ==
    {entities_b[entity_hash][k][2].absolute_entity : k \in DOMAIN entities_b[entity_hash]}

\* C29: for every UNCHANGED fingerprint the output holds what the first
\* occurrence of document A draws, and nothing that only an occurrence of
\* document B draws
C29_UnchangedShowsA ==
    new_doc # <<>> =>
        \A h \in common_hashes :
            LET from_a == DrawnUnchanged(FirstOccurrence(entities_a, h))
            IN  /\ EmittedFor("UNCHANGED", h) = from_a
                /\ \A b \in OccurrencesInB(h) :
                      (DrawnUnchanged(b) \ from_a) \cap EmittedFor("UNCHANGED", h) = {}

\* document A holds a LINE ending at y = 10.026 and document B one ending at
\* y = 10.030: at tolerance 0.01 they share a fingerprint, and the UNCHANGED
\* layer holds the LINE of A, not that of B
C29_Witness ==
    /\ new_doc # <<>> /\ tolerance = 10
    /\ file_a.msp = <<LineTo(10026)>> /\ file_b.msp = <<LineTo(10030)>>
    /\ Cardinality(common_hashes) = 1
    /\ \A h \in common_hashes :
          /\ \E e \in EmittedFor("UNCHANGED", h) : e.dxf.end = <<10000, 10026, 0>>
          /\ \A e \in EmittedFor("UNCHANGED", h) : e.dxf.end # <<10000, 10030, 0>>
          /\ DrawnUnchanged(FirstOccurrence(entities_b, h))
                # DrawnUnchanged(FirstOccurrence(entities_a, h))

(***************************************************************************)
(* C30  After building the fingerprint index of a document, every key maps *)
(* to a non-empty list of occurrences in processing order, every record    *)
(* that was successfully expanded and hashed appears in exactly one list   *)
(* exactly once, and the total number of occurrences over all keys equals  *)
(* the number of such records (duplicates collapse under one key but       *)
(* remain enumerable).                                                     *)
(***************************************************************************)
\* the absolute entities recorded under entity_hash, in the order of the list
ListedUnder(entities, entity_hash) ==
    [k \in DOMAIN entities[entity_hash] |-> entities[entity_hash][k][2].absolute_entity]

RECURSIVE Embeds(_, _)
\* sub is seq with some of its elements left out
Embeds(sub, seq) ==
    IF sub = <<>> THEN TRUE
    ELSE IF seq = <<>> THEN FALSE
    ELSE IF Head(sub) = Head(seq) THEN Embeds(Tail(sub), Tail(seq))
    ELSE Embeds(sub, Tail(seq))

RECURSIVE TotalOccurrences(_, _)
\* the lengths of the lists of the keys in hashes, added up
TotalOccurrences(entities, hashes) ==
    IF hashes = {} THEN 0
    ELSE LET h == CHOOSE g \in hashes : TRUE
         IN  Len(entities[h]) + TotalOccurrences(entities, hashes \ {h})

\* the index entities was built from doc as C30 states
WellFormedIndex(entities, doc) ==
    LET absolute_entities == expand_insert_entities(doc)
    IN  /\ \A h \in DOMAIN entities :
              /\ Len(entities[h]) >= 1
              /\ Embeds(ListedUnder(entities, h), absolute_entities)
        /\ \A x \in Range(absolute_entities) :
              Count(entities, x)
                 = Cardinality({i \in DOMAIN absolute_entities : absolute_entities[i] = x})
        /\ \A r \in Records(entities) : r.absolute_entity \in Range(absolute_entities)
        /\ TotalOccurrences(entities, DOMAIN entities) = Len(absolute_entities)

\* C30: both indexes of a call hold every expanded record once, under
\* non-empty lists kept in processing order
C30_IndexHoldsEveryRecordOnce ==
    Classified =>
        /\ WellFormedIndex(entities_a, file_a)
        /\ WellFormedIndex(entities_b, file_b)

\* document A holds three LINEs, the first two within the tolerance of each
\* other: two keys, one of them with both occurrences in document order
C30_Witness ==
    /\ Classified /\ tolerance = 10
    /\ file_a.msp = <<LineTo(10026), LineTo(11000), LineTo(10030)>>
    /\ Cardinality(DOMAIN entities_a) = 2
    /\ \E h \in DOMAIN entities_a :
          /\ Len(entities_a[h]) = 2
          /\ entities_a[h][1][2].absolute_entity.attributes.end = <<10000, 10026, 0>>
          /\ entities_a[h][2][2].absolute_entity.attributes.end = <<10000, 10030, 0>>


====
